---- MODULE Spec2Model ----
(***************************************************************************)
(* State-graph orchestrator (execution/langgraph/graph.py) as a state      *)
(* machine: the plan / execute / policy / finalize nodes, the memo store   *)
(* and the checkpoint store they write to, and the graph driver with its   *)
(* recursion limit.  Strings the code only compares or searches are        *)
(* modelled by named values; every function over them is tabulated from    *)
(* the code that computes it.                                              *)
(***************************************************************************)
EXTENDS Integers, Sequences, FiniteSets, TLC

(***************************************************************************)
(* Configuration of the orchestrator under analysis.                       *)
(***************************************************************************)
max_steps == 8
max_invalid_plan_retries == 3
max_content_validation_retries == 1
max_policy_retries == 1

(***************************************************************************)
(* Value domains.                                                          *)
(***************************************************************************)
NoArg == "-"
NoKey == <<>>
NoValue == <<>>
NoHash == <<>>

RunId == "r1"
SharedRunId == "shared"

PathFib == "fib.txt"
PathB == "out/b.txt"
BaseB == "b.txt"
PathBad == "missing_dir/c.txt"
BaseBad == "c.txt"

ContentFib100 == "FIB100"
ContentFibBad == "FIB_BAD"
ContentNotes == "notes"

MissionPlain == "Task 1: perform unknown operation now"
MissionOther == "Task 2: perform another operation"
MissionFib == "Task 1: write the fibonacci sequence until the 100th number to fib.txt"
MissionWriteB == "Task 2: write notes to out/b.txt"
MissionRepeat == "Task 1: repeat 'ok'"
MissionRepeatAgain == "Task 2: repeat 'ok'"
MissionWriteC == "Task 1: write notes to missing_dir/c.txt"

HelperTools == {"memoize", "retrieve_memo"}
Tools == {"repeat_message", "sort_array", "write_file", "memoize", "retrieve_memo"}

EmptyArgs ==
  [path |-> NoArg, content |-> NoArg, key |-> NoKey, value |-> NoValue,
   run_id |-> NoArg, step |-> -1, items |-> NoArg, message |-> NoArg,
   source_tool |-> NoArg]

EmptyResult ==
  [error |-> "", kind |-> "", found |-> FALSE, key |-> NoKey, namespace |-> "",
   value |-> NoValue, value_hash |-> NoHash, run_id |-> ""]

NoAction == [action |-> "none", tool_name |-> "", args |-> EmptyArgs, answer |-> ""]
ToolActionOf(t, a) == [action |-> "tool", tool_name |-> t, args |-> a, answer |-> ""]
FinishActionOf(s) == [action |-> "finish", tool_name |-> "", args |-> EmptyArgs, answer |-> s]

(***************************************************************************)
(* String functions of the code, tabulated over the model's strings.       *)
(***************************************************************************)
Strip(s) == IF s \in {"", " "} THEN "" ELSE s

Basename(path) ==
  CASE path = PathB -> BaseB
    [] path = PathBad -> BaseBad
    [] OTHER -> path

hash_json(value) == <<"sha256", value>>

ContentLength(content) ==
  CASE content = ContentFib100 -> 1100
    [] content = ContentFibBad -> 32
    [] content = ContentNotes -> 5
    [] OTHER -> 0

CommaCount(content) ==
  CASE content = ContentFib100 -> 99
    [] content = ContentFibBad -> 8
    [] OTHER -> 0

ArgStr(x) == IF x = NoArg THEN "" ELSE x

Min(a, b) == IF a < b THEN a ELSE b
Max(a, b) == IF a > b THEN a ELSE b

InSeq(x, seq) == \E i \in 1..Len(seq) : seq[i] = x

(***************************************************************************)
(* Mission texts: the substring and regex tests the code applies to them.  *)
(***************************************************************************)
MentionsWrite(mission) == mission \in {MissionFib, MissionWriteB, MissionWriteC}
MentionsFibonacci(mission) == mission = MissionFib
MentionsMemo(mission) == FALSE
MentionsRetrieve(mission) == FALSE
MentionsRepeat(mission) == mission \in {MissionRepeat, MissionRepeatAgain}

extract_write_path_from_mission(mission) ==
  CASE mission = MissionFib -> PathFib
    [] mission = MissionWriteB -> PathB
    [] mission = MissionWriteC -> PathBad
    [] OTHER -> ""

extract_quoted_text(mission) ==
  IF mission \in {MissionRepeat, MissionRepeatAgain} THEN "ok" ELSE ""

(***************************************************************************)
(* Memo store: rows in id order; put upserts on (run_id, namespace, key).  *)
(***************************************************************************)
MemoRow(run_id, namespace, key, value, source_tool, step, created_at) ==
  [run_id |-> run_id, namespace |-> namespace, key |-> key, value |-> value,
   value_hash |-> hash_json(value), source_tool |-> source_tool, step |-> step,
   created_at |-> created_at]

MemoIndex(store, run_id, namespace, key) ==
  {i \in 1..Len(store) :
     /\ store[i].run_id = run_id
     /\ store[i].namespace = namespace
     /\ store[i].key = key}

(* The clock reading of a put that is given no created_at.                 *)
utc_now_iso == "utc_now"

put_always_inserts(store, run_id, key, value, namespace, source_tool, step, created_at) ==
  Append(store, MemoRow(run_id, namespace, key, value, source_tool, step,
                        IF created_at = "" THEN utc_now_iso ELSE created_at))

(* INSERT ... ON CONFLICT(run_id, namespace, key) DO UPDATE: the row a     *)
(* conflicting put updates keeps its id, that is its place in the store.   *)
put(store, run_id, key, value, namespace, source_tool, step, created_at) ==
  LET hit == MemoIndex(store, run_id, namespace, key)
      timestamp == IF created_at = "" THEN utc_now_iso ELSE created_at
      row == MemoRow(run_id, namespace, key, value, source_tool, step, timestamp)
  IN IF hit = {}
       THEN Append(store, row)
       ELSE [i \in 1..Len(store) |-> IF i \in hit THEN row ELSE store[i]]

(* put as the orchestrator and its tools call it, without created_at.      *)
memo_put(store, run_id, key, value, namespace, source_tool, step) ==
  put(store, run_id, key, value, namespace, source_tool, step, "")

MemoMiss(run_id, key, namespace) ==
  [found |-> FALSE, run_id |-> run_id, key |-> key, namespace |-> namespace,
   value |-> NoValue, value_hash |-> NoHash]

MemoHit(row) ==
  [found |-> TRUE, run_id |-> row.run_id, key |-> row.key, namespace |-> row.namespace,
   value |-> row.value, value_hash |-> row.value_hash]

memo_get(store, run_id, key, namespace) ==
  LET hit == MemoIndex(store, run_id, namespace, key)
  IN IF hit = {} THEN MemoMiss(run_id, key, namespace)
     ELSE MemoHit(store[CHOOSE i \in hit : TRUE])

memo_get_latest(store, key, namespace) ==
  LET hit == {i \in 1..Len(store) : store[i].namespace = namespace /\ store[i].key = key}
  IN IF hit = {} THEN MemoMiss("", key, namespace)
     ELSE MemoHit(store[CHOOSE i \in hit : \A j \in hit : j <= i])

(***************************************************************************)
(* Memoization policy (execution/langgraph/policy.py).                     *)
(***************************************************************************)
requires_memoization(tool_name, args, result) ==
  IF tool_name # "write_file" THEN FALSE
  ELSE LET path == ArgStr(args.path)
           content == ArgStr(args.content)
       IN IF path = PathFib THEN TRUE
          ELSE IF ContentLength(content) >= 400 THEN TRUE
          ELSE IF CommaCount(content) > 20 THEN TRUE
          ELSE IF result.kind = "wrote"
                 THEN ContentLength(content) > 0 /\ ContentLength(content) >= 200
          ELSE FALSE

suggested_memo_key(tool_name, args, result) ==
  IF tool_name = "write_file" /\ Strip(ArgStr(args.path)) # ""
    THEN <<"write_file", Strip(ArgStr(args.path))>>
    ELSE <<tool_name, hash_json(<<args, result>>)>>

(***************************************************************************)
(* Tools (tools/*.py, execution/langgraph/tools_registry.py).  A result    *)
(* carries the key "error" iff its error field is not empty.               *)
(***************************************************************************)
OkResult(kind) == [EmptyResult EXCEPT !.kind = kind]
ErrorResult(reason) == [EmptyResult EXCEPT !.error = reason]
HasError(result) == result.error # ""

EchoTool(args) == OkResult("echo")

SortArrayTool(args) ==
  IF args.items = "not-a-list" THEN ErrorResult("items must be a list")
  ELSE OkResult("sorted")

WriteFileTool(args) ==
  IF ArgStr(args.path) = "" THEN ErrorResult("path is required")
  ELSE IF ArgStr(args.content) = "" THEN ErrorResult("content is required")
  ELSE IF args.path = PathBad THEN ErrorResult("Failed to write file")
  ELSE OkResult("wrote")

MemoizeNamespace == "run"

MemoizeStoreTool(args, store) ==
  LET source_tool == IF ArgStr(args.source_tool) = "" THEN "memoize" ELSE args.source_tool
      step == IF args.step = -1 THEN 0 ELSE args.step
  IN IF args.key = NoKey THEN [result |-> ErrorResult("key is required"), store |-> store]
     ELSE IF args.value = NoValue
       THEN [result |-> ErrorResult("value is required"), store |-> store]
     ELSE IF ArgStr(args.run_id) = ""
       THEN [result |-> ErrorResult("run_id is required"), store |-> store]
     ELSE [result |-> [EmptyResult EXCEPT !.kind = "memoized", !.key = args.key,
                                          !.namespace = MemoizeNamespace,
                                          !.value_hash = hash_json(args.value),
                                          !.run_id = args.run_id],
           store |-> memo_put(store, args.run_id, args.key, args.value,
                              MemoizeNamespace, source_tool, step)]

RetrieveMemoTool(args, store) ==
  IF args.key = NoKey THEN ErrorResult("key is required")
  ELSE IF ArgStr(args.run_id) = "" THEN ErrorResult("run_id is required")
  ELSE LET lookup == memo_get(store, args.run_id, args.key, MemoizeNamespace)
       IN IF ~lookup.found
            THEN [EmptyResult EXCEPT !.kind = "lookup", !.key = args.key,
                                     !.namespace = MemoizeNamespace]
            ELSE [EmptyResult EXCEPT !.kind = "lookup", !.found = TRUE, !.key = args.key,
                                     !.namespace = MemoizeNamespace,
                                     !.value = lookup.value,
                                     !.value_hash = lookup.value_hash,
                                     !.run_id = lookup.run_id]

ToolExecute(tool_name, args, store) ==
  CASE tool_name = "repeat_message" -> [result |-> EchoTool(args), store |-> store]
    [] tool_name = "sort_array" -> [result |-> SortArrayTool(args), store |-> store]
    [] tool_name = "write_file" -> [result |-> WriteFileTool(args), store |-> store]
    [] tool_name = "memoize" -> MemoizeStoreTool(args, store)
    [] tool_name = "retrieve_memo" -> [result |-> RetrieveMemoTool(args, store), store |-> store]

(***************************************************************************)
(* Run state (execution/langgraph/state_schema.py) and its helpers.        *)
(* Indices into missions and mission_reports are 0-based as in the code;   *)
(* the sequences themselves are 1-based.                                   *)
(***************************************************************************)
NoIndex == -2

initialize_mission_reports(missions) ==
  [i \in 1..Len(missions) |->
     [mission_id |-> i, mission |-> missions[i], used_tools |-> <<>>,
      tool_results |-> <<>>, result |-> EmptyResult]]

new_run_state(missions) ==
  [run_id |-> RunId,
   step |-> 0,
   messages |-> <<"system_prompt", "user_input">>,
   missions |-> missions,
   mission_reports |-> initialize_mission_reports(missions),
   active_mission_index |-> -1,
   completed_tasks |-> <<>>,
   tool_history |-> <<>>,
   memo_events |-> <<>>,
   retry_counts |-> [invalid_json |-> 0, memo_policy |-> 0, duplicate_tool |-> 0,
                     provider_timeout |-> 0, content_validation |-> 0],
   policy_flags |-> [memo_required |-> FALSE, memo_required_key |-> NoKey,
                     memo_required_reason |-> "", memo_retrieve_hits |-> 0,
                     memo_retrieve_misses |-> 0, cache_reuse_hits |-> 0,
                     cache_reuse_misses |-> 0, planner_timeout_mode |-> FALSE,
                     last_tool_name |-> "", last_tool_args |-> EmptyArgs,
                     last_tool_result |-> EmptyResult],
   seen_tool_signatures |-> <<>>,
   tool_call_counts |-> [t \in Tools |-> 0],
   pending_action |-> NoAction,
   final_answer |-> ""]

AppendMessage(s, tag) == [s EXCEPT !.messages = Append(@, tag)]

next_incomplete_mission(s) ==
  IF Len(s.completed_tasks) < Len(s.missions)
    THEN s.missions[Len(s.completed_tasks) + 1]
    ELSE ""

all_missions_completed(s) ==
  IF s.missions = <<>> THEN FALSE
  ELSE Len(s.completed_tasks) >= Len(s.missions)

AutoFinishAnswer == "All tasks completed."
build_auto_finish_answer(s) == AutoFinishAnswer

MemoEvent(key, namespace, source_tool, step, value_hash) ==
  [key |-> key, namespace |-> namespace, source_tool |-> source_tool,
   step |-> step, value_hash |-> value_hash]

ToolRecord(call, tool, args, result) ==
  [call |-> call, tool |-> tool, args |-> args, result |-> result]

AppendToolHistory_per_tool(s, tool, args, result) ==
  [s EXCEPT !.tool_call_counts[tool] = @ + 1,
            !.tool_history = Append(@, ToolRecord(s.tool_call_counts[tool] + 1, tool, args, result))]

AppendToolHistory(s, tool, args, result) ==
  [s EXCEPT !.tool_call_counts[tool] = @ + 1,
            !.tool_history = Append(@, ToolRecord(Len(s.tool_history) + 1, tool, args, result))]

MissionEventIndex(s, tool_name, mission_index) ==
  LET reports == s.mission_reports
      fallthrough == Min(Len(s.completed_tasks), Len(reports) - 1)
      index == s.active_mission_index
  IN IF mission_index # NoIndex THEN Min(Max(mission_index, 0), Len(reports) - 1)
     ELSE IF tool_name \in HelperTools THEN
       IF tool_name = "memoize" /\ MentionsMemo(next_incomplete_mission(s)) THEN fallthrough
       ELSE IF /\ tool_name = "memoize"
               /\ s.policy_flags.memo_required
               /\ 0 <= index
               /\ index < Len(reports) THEN index
       ELSE fallthrough
     ELSE fallthrough

MarksComplete(tool_name, mission_text) ==
  \/ tool_name \notin HelperTools
  \/ tool_name = "retrieve_memo" /\ (MentionsRetrieve(mission_text) \/ MentionsMemo(mission_text))
  \/ tool_name = "memoize" /\ MentionsMemo(mission_text)

record_mission_tool_event_unchecked(s, tool_name, tool_result, mission_index) ==
  LET index == MissionEventIndex(s, tool_name, mission_index)
      mission_text == s.mission_reports[index + 1].mission
      s1 == [s EXCEPT !.active_mission_index = index,
                      !.mission_reports[index + 1].used_tools = Append(@, tool_name),
                      !.mission_reports[index + 1].tool_results =
                          Append(@, [tool |-> tool_name, result |-> tool_result]),
                      !.mission_reports[index + 1].result = tool_result]
  IN IF /\ ~HasError(tool_result)
        /\ MarksComplete(tool_name, mission_text)
        /\ mission_text # ""
       THEN [s1 EXCEPT !.completed_tasks = Append(@, mission_text)]
       ELSE s1

record_mission_tool_event_ignoring_errors(s, tool_name, tool_result, mission_index) ==
  LET index == MissionEventIndex(s, tool_name, mission_index)
      mission_text == s.mission_reports[index + 1].mission
      s1 == [s EXCEPT !.active_mission_index = index,
                      !.mission_reports[index + 1].used_tools = Append(@, tool_name),
                      !.mission_reports[index + 1].tool_results =
                          Append(@, [tool |-> tool_name, result |-> tool_result]),
                      !.mission_reports[index + 1].result = tool_result]
  IN IF /\ MarksComplete(tool_name, mission_text)
        /\ mission_text # ""
        /\ ~InSeq(mission_text, s.completed_tasks)
       THEN [s1 EXCEPT !.completed_tasks = Append(@, mission_text)]
       ELSE s1

record_mission_tool_event(s, tool_name, tool_result, mission_index) ==
  LET index == MissionEventIndex(s, tool_name, mission_index)
      mission_text == s.mission_reports[index + 1].mission
      s1 == [s EXCEPT !.active_mission_index = index,
                      !.mission_reports[index + 1].used_tools = Append(@, tool_name),
                      !.mission_reports[index + 1].tool_results =
                          Append(@, [tool |-> tool_name, result |-> tool_result]),
                      !.mission_reports[index + 1].result = tool_result]
  IN IF /\ ~HasError(tool_result)
        /\ MarksComplete(tool_name, mission_text)
        /\ mission_text # ""
        /\ ~InSeq(mission_text, s.completed_tasks)
       THEN [s1 EXCEPT !.completed_tasks = Append(@, mission_text)]
       ELSE s1

record_retrieve_memo_trace(s, tool_result) ==
  LET s1 == IF tool_result.found
              THEN [s EXCEPT !.policy_flags.memo_retrieve_hits = @ + 1]
              ELSE [s EXCEPT !.policy_flags.memo_retrieve_misses = @ + 1]
      source_tool == IF tool_result.found THEN "retrieve_memo_hit" ELSE "retrieve_memo_miss"
      namespace == IF tool_result.namespace = "" THEN "run" ELSE tool_result.namespace
  IN [s1 EXCEPT !.memo_events =
        Append(@, MemoEvent(tool_result.key, namespace, source_tool, s.step,
                            tool_result.value_hash))]

memo_lookup_candidates_for_action(tool_name, tool_args) ==
  LET path == Strip(ArgStr(tool_args.path))
  IN IF tool_name # "write_file" \/ path = "" THEN <<>>
     ELSE IF Basename(path) # "" /\ Basename(path) # path
       THEN <<suggested_memo_key(tool_name, [EmptyArgs EXCEPT !.path = path], EmptyResult),
              suggested_memo_key(tool_name, [EmptyArgs EXCEPT !.path = Basename(path)],
                                 EmptyResult)>>
       ELSE <<suggested_memo_key(tool_name, [EmptyArgs EXCEPT !.path = path], EmptyResult)>>

has_attempted_memo_lookup_never(s, candidate_keys) == candidate_keys = <<>>

has_attempted_memo_lookup(s, candidate_keys) ==
  IF candidate_keys = <<>> THEN TRUE
  ELSE \E i \in 1..Len(s.tool_history) :
         /\ s.tool_history[i].tool = "retrieve_memo"
         /\ InSeq(s.tool_history[i].args.key, candidate_keys)

RECURSIVE auto_lookup_from(_, _, _, _)
auto_lookup_from(s, store, candidate_keys, i) ==
  IF i > Len(candidate_keys) THEN [state |-> s, found |-> FALSE, memo_hit |-> EmptyResult]
  ELSE LET retrieve_args == [EmptyArgs EXCEPT !.key = candidate_keys[i], !.run_id = s.run_id]
           tool_result == RetrieveMemoTool(retrieve_args, store)
           s1 == record_retrieve_memo_trace(s, tool_result)
           s2 == AppendToolHistory(s1, "retrieve_memo", retrieve_args, tool_result)
           s3 == record_mission_tool_event(s2, "retrieve_memo", tool_result, NoIndex)
           s4 == AppendMessage(s3, "tool_result")
       IN IF tool_result.found
            THEN [state |-> s4, found |-> TRUE, memo_hit |-> tool_result]
            ELSE auto_lookup_from(s4, store, candidate_keys, i + 1)

auto_lookup_before_write(s, store, candidate_keys) ==
  auto_lookup_from(s, store, candidate_keys, 1)

mark_next_mission_complete_from_memo_hit_skipped(s, memo_hit) == s

mark_next_mission_complete_from_memo_hit(s, memo_hit) ==
  LET mission_text == next_incomplete_mission(s)
  IN IF mission_text = "" THEN s
     ELSE LET s1 == IF InSeq(mission_text, s.completed_tasks) THEN s
                    ELSE [s EXCEPT !.completed_tasks = Append(@, mission_text)]
              index == Min(Max(Len(s1.completed_tasks) - 1, 0), Len(s1.mission_reports) - 1)
          IN IF s1.mission_reports = <<>> THEN s1
             ELSE [s1 EXCEPT !.active_mission_index = index,
                             !.mission_reports[index + 1].result = memo_hit]

cache_key_for_path(path) == <<"write_file_input", path>>

write_cache_candidates(path) ==
  IF Strip(path) = "" THEN <<>>
  ELSE IF Basename(path) # "" /\ Basename(path) # path
    THEN <<cache_key_for_path(path), cache_key_for_path(Basename(path))>>
    ELSE <<cache_key_for_path(path)>>

(* Mission content validator: "" stands for None (pass). *)
ContentValidation(content) ==
  CASE content = ContentFib100 -> ""
    [] content = ContentFibBad -> "fibonacci content must contain exactly 100 integers"
    [] content = ContentNotes -> "write_file content must be a comma-separated list of integers."
    [] OTHER -> "fibonacci content must contain exactly 100 integers"

validate_tool_result_for_active_mission(s, tool_name, tool_args, tool_result) ==
  IF tool_name # "write_file" THEN ""
  ELSE IF HasError(tool_result) THEN ""
  ELSE IF ~MentionsFibonacci(next_incomplete_mission(s)) THEN ""
  ELSE ContentValidation(ArgStr(tool_args.content))

(***************************************************************************)
(* Cross-run cache of write_file inputs.                                   *)
(***************************************************************************)
CachePayload(path, content) == <<"write_input", path, content>>
CachedContent(value) ==
  IF Len(value) = 3 /\ value[1] = "write_input" THEN value[3] ELSE ""

CacheTargetIndex(s, mission) ==
  LET reports == s.mission_reports
      target_index == Min(Len(s.completed_tasks), Len(reports) - 1)
      same == {i \in 1..Len(reports) : reports[i].mission = mission}
  IN IF reports = <<>> THEN 0
     ELSE IF reports[target_index + 1].mission # mission /\ same # {}
       THEN (CHOOSE i \in same : \A j \in same : i <= j) - 1
     ELSE target_index

RECURSIVE cache_reuse_from(_, _, _, _, _, _)
cache_reuse_from(s, store, target_path, target_index, keys, i) ==
  IF i > Len(keys)
    THEN [state |-> [s EXCEPT !.policy_flags.cache_reuse_misses = @ + 1], hit |-> FALSE]
  ELSE LET lookup == memo_get_latest(store, keys[i], "cache")
           cached_content == CachedContent(lookup.value)
           write_args == [EmptyArgs EXCEPT !.path = target_path, !.content = cached_content]
           tool_result == WriteFileTool(write_args)
           validation_error ==
             validate_tool_result_for_active_mission(s, "write_file", write_args, tool_result)
           s1 == [s EXCEPT !.policy_flags.cache_reuse_hits = @ + 1,
                           !.active_mission_index = target_index]
           s2 == AppendToolHistory(s1, "write_file", write_args, tool_result)
           s3 == record_mission_tool_event(s2, "write_file", tool_result, target_index)
           s4 == AppendMessage(s3, "tool_result")
           s5 == [s4 EXCEPT !.memo_events =
                    Append(@, MemoEvent(keys[i], "cache", "cache_reuse_hit", s.step,
                                        lookup.value_hash))]
       IN IF ~lookup.found \/ cached_content = "" \/ validation_error # ""
            THEN cache_reuse_from(s, store, target_path, target_index, keys, i + 1)
            ELSE [state |-> s5, hit |-> TRUE]

maybe_complete_next_write_from_cache_marking_next(s, store) ==
  LET mission == next_incomplete_mission(s)
      target_path == extract_write_path_from_mission(mission)
      reuse == cache_reuse_from(s, store, target_path, CacheTargetIndex(s, mission),
                                write_cache_candidates(target_path), 1)
  IN IF mission = "" \/ ~MentionsWrite(mission) \/ target_path = ""
       THEN [state |-> s, hit |-> FALSE]
     ELSE IF reuse.hit
       THEN [state |-> mark_next_mission_complete_from_memo_hit(reuse.state, EmptyResult),
             hit |-> TRUE]
     ELSE reuse

maybe_complete_next_write_from_cache(s, store) ==
  LET mission == next_incomplete_mission(s)
      target_path == extract_write_path_from_mission(mission)
  IN IF mission = "" \/ ~MentionsWrite(mission) \/ target_path = ""
       THEN [state |-> s, hit |-> FALSE]
       ELSE cache_reuse_from(s, store, target_path, CacheTargetIndex(s, mission),
                             write_cache_candidates(target_path), 1)

cache_write_first_key(s, store, path, content, keys, i) ==
  IF i > Len(keys) THEN [state |-> s, store |-> store]
  ELSE LET value == CachePayload(path, content)
       IN [state |-> [s EXCEPT !.memo_events =
                        Append(@, MemoEvent(keys[i], "cache", "write_file_cache", s.step,
                                            hash_json(value)))],
           store |-> memo_put(store, SharedRunId, keys[i], value, "cache",
                              "write_file_cache", s.step)]

RECURSIVE cache_write_from(_, _, _, _, _, _)
cache_write_from(s, store, path, content, keys, i) ==
  IF i > Len(keys) THEN [state |-> s, store |-> store]
  ELSE LET value == CachePayload(path, content)
           store1 == memo_put(store, SharedRunId, keys[i], value, "cache",
                              "write_file_cache", s.step)
           s1 == [s EXCEPT !.memo_events =
                    Append(@, MemoEvent(keys[i], "cache", "write_file_cache", s.step,
                                        hash_json(value)))]
       IN cache_write_from(s1, store1, path, content, keys, i + 1)

cache_write_file_inputs(s, store, tool_args) ==
  LET path == Strip(ArgStr(tool_args.path))
      content == ArgStr(tool_args.content)
  IN IF path = "" \/ content = "" THEN [state |-> s, store |-> store]
     ELSE cache_write_from(s, store, path, content, write_cache_candidates(path), 1)

(***************************************************************************)
(* Deterministic fallback generator; NoAction stands for None.             *)
(***************************************************************************)
FallbackMemoValue(last_result) ==
  IF last_result = EmptyResult THEN <<"json", "memoized_by_fallback">>
  ELSE <<"result", last_result>>

deterministic_fallback_action_once(s) ==
  IF s.policy_flags.planner_timeout_mode THEN NoAction
  ELSE IF all_missions_completed(s) THEN FinishActionOf(build_auto_finish_answer(s))
  ELSE IF MentionsFibonacci(next_incomplete_mission(s)) /\ MentionsWrite(next_incomplete_mission(s))
    THEN ToolActionOf("write_file",
           [EmptyArgs EXCEPT !.path = PathFib, !.content = ContentFib100])
  ELSE NoAction

deterministic_fallback_action(s) ==
  LET flags == s.policy_flags
      mission == next_incomplete_mission(s)
      repeat_text == extract_quoted_text(mission)
  IN IF flags.memo_required /\ flags.memo_required_key # NoKey
       THEN ToolActionOf("memoize",
              [EmptyArgs EXCEPT !.key = flags.memo_required_key,
                                !.value = FallbackMemoValue(flags.last_tool_result),
                                !.run_id = s.run_id,
                                !.source_tool = IF flags.last_tool_name = "" THEN "memoize"
                                                ELSE flags.last_tool_name])
     ELSE IF all_missions_completed(s) THEN FinishActionOf(build_auto_finish_answer(s))
     ELSE IF mission = "" THEN FinishActionOf(build_auto_finish_answer(s))
     ELSE IF MentionsRepeat(mission) /\ repeat_text # ""
       THEN ToolActionOf("repeat_message", [EmptyArgs EXCEPT !.message = repeat_text])
     ELSE IF MentionsFibonacci(mission) /\ MentionsWrite(mission)
       THEN ToolActionOf("write_file",
              [EmptyArgs EXCEPT !.path = IF extract_write_path_from_mission(mission) = ""
                                           THEN PathFib
                                           ELSE extract_write_path_from_mission(mission),
                                !.content = ContentFib100])
     ELSE NoAction

(***************************************************************************)
(* Planner: what one generate() call under the hard timeout can deliver.   *)
(***************************************************************************)
ProposeSort == ToolActionOf("sort_array", [EmptyArgs EXCEPT !.items = "3,2,1"])
ProposeSortBad == ToolActionOf("sort_array", [EmptyArgs EXCEPT !.items = "not-a-list"])
ProposeWriteFib ==
  ToolActionOf("write_file", [EmptyArgs EXCEPT !.path = PathFib, !.content = ContentFib100])
ProposeWriteFibBad ==
  ToolActionOf("write_file", [EmptyArgs EXCEPT !.path = PathFib, !.content = ContentFibBad])
ProposeWriteB ==
  ToolActionOf("write_file", [EmptyArgs EXCEPT !.path = PathB, !.content = ContentNotes])
ProposeWriteC ==
  ToolActionOf("write_file", [EmptyArgs EXCEPT !.path = PathBad, !.content = ContentNotes])
ProposeMemoizeFib ==
  ToolActionOf("memoize", [EmptyArgs EXCEPT !.key = <<"write_file", PathFib>>,
                                            !.value = <<"json", "v1">>])
ProposeMemoizeNoValue ==
  ToolActionOf("memoize", [EmptyArgs EXCEPT !.key = <<"write_file", PathFib>>])
ProposeRetrieveFib ==
  ToolActionOf("retrieve_memo", [EmptyArgs EXCEPT !.key = <<"write_file", PathFib>>])
ProposeUnknown == ToolActionOf("bogus", EmptyArgs)

ToolProposals ==
  {ProposeSort, ProposeSortBad, ProposeWriteFib, ProposeWriteFibBad, ProposeWriteB,
   ProposeWriteC,
   ProposeMemoizeFib, ProposeMemoizeNoValue, ProposeRetrieveFib, ProposeUnknown}

FinishProposals == {FinishActionOf("done"), FinishActionOf(" ")}

PlannerResponse(kind, text, action) == [kind |-> kind, text |-> text, action |-> action]

PlannerResponses ==
  {PlannerResponse("timeout", "planner call exceeded hard timeout", NoAction),
   PlannerResponse("error", "invalid api key", NoAction),
   PlannerResponse("output", "not-json", NoAction)}
  \cup {PlannerResponse("output", "json", a) : a \in ToolProposals \cup FinishProposals}

(* _validate_action: ok with the parsed action, or the ValueError text. *)
validate_action(response) ==
  IF response.text = "not-json" THEN [ok |-> FALSE, action |-> NoAction, error |-> "invalid json"]
  ELSE IF response.action.action \notin {"tool", "finish"}
    THEN [ok |-> FALSE, action |-> NoAction, error |-> "action must be 'tool' or 'finish'"]
  ELSE [ok |-> TRUE, action |-> response.action, error |-> ""]

is_unrecoverable_plan_error_never(error_text) == FALSE

is_unrecoverable_plan_error(error_text) ==
  error_text \in {"model not found", "invalid api key", "authentication", "permission",
                  "insufficient_quota", "rate limit exceeded"}

(***************************************************************************)
(* State of one run and of the stores it touches.                          *)
(***************************************************************************)
(***************************************************************************)
(* Memo listing and the derived snapshot of a finished run.                *)
(***************************************************************************)
list_entries_all_rows(store, run_id, namespace) ==
  [i \in 1..Len(store) |->
     [key |-> store[i].key, value_hash |-> store[i].value_hash,
      source_tool |-> store[i].source_tool, step |-> store[i].step,
      created_at |-> store[i].created_at]]

(* The ids of the rows of run_id and namespace, ORDER BY step ASC, id ASC. *)
RECURSIVE OrderByStepId(_, _)
OrderByStepId(store, ids) ==
  IF ids = {} THEN <<>>
  ELSE LET first == CHOOSE i \in ids :
                      \A j \in ids : \/ store[i].step < store[j].step
                                      \/ (store[i].step = store[j].step /\ i <= j)
       IN <<first>> \o OrderByStepId(store, ids \ {first})

list_entries(store, run_id, namespace) ==
  LET ids == {i \in 1..Len(store) :
                store[i].run_id = run_id /\ store[i].namespace = namespace}
      rows == OrderByStepId(store, ids)
  IN [n \in 1..Len(rows) |->
        [key |-> store[rows[n]].key, value_hash |-> store[rows[n]].value_hash,
         source_tool |-> store[rows[n]].source_tool, step |-> store[rows[n]].step,
         created_at |-> store[rows[n]].created_at]]

NoSnapshot == [run_id |-> ""]

build_derived_snapshot(s, memo_entries) ==
  [run_id |-> s.run_id,
   step |-> s.step,
   tools_used_count |-> Len(s.tool_history),
   tool_call_counts |-> s.tool_call_counts,
   memo_entry_count |-> Len(memo_entries),
   memo_keys |-> [n \in 1..Len(memo_entries) |-> memo_entries[n].key],
   mission_count |-> Len(s.mission_reports),
   duplicate_tool_retries |-> s.retry_counts.duplicate_tool,
   memo_policy_retries |-> s.retry_counts.memo_policy,
   provider_timeout_retries |-> s.retry_counts.provider_timeout,
   content_validation_retries |-> s.retry_counts.content_validation,
   memo_retrieve_hits |-> s.policy_flags.memo_retrieve_hits,
   memo_retrieve_misses |-> s.policy_flags.memo_retrieve_misses,
   cache_reuse_hits |-> s.policy_flags.cache_reuse_hits,
   cache_reuse_misses |-> s.policy_flags.cache_reuse_misses]

VARIABLES
  state,             \* the RunState threaded through the nodes
  memo_store,        \* rows of memo_entries
  checkpoint_store,  \* rows of graph_checkpoints (step, node_name)
  node,              \* the node the graph runs next
  outcome,           \* "running", "returned", or the exception run() raised
  supersteps,        \* node executions so far
  planner_calls,     \* generate() invocations so far
  last_run,          \* what the last node execution did
  max_provider_timeout_retries, \* the orchestrator's provider-timeout budget
  outboxes,          \* per planner call: its worker thread and its one-slot queue
  derived_snapshot,  \* the derived_snapshot of the dict run() returned
  put_log            \* the puts a direct client of the memo store has made

vars == <<state, memo_store, checkpoint_store, node, outcome, supersteps,
          planner_calls, last_run, max_provider_timeout_retries, outboxes,
          derived_snapshot, put_log>>

SeedEmpty == <<>>
SeedCacheFib ==
  <<MemoRow(SharedRunId, "cache", cache_key_for_path(PathFib),
            CachePayload(PathFib, ContentFib100), "write_file_cache", 1, "seeded")>>
SeedCacheC ==
  <<MemoRow(SharedRunId, "cache", cache_key_for_path(BaseBad),
            CachePayload(BaseBad, ContentNotes), "write_file_cache", 1, "seeded")>>
SeedRunMemoB ==
  <<MemoRow(RunId, "run", <<"write_file", PathB>>, <<"json", "v0">>, "write_file", 1,
            "seeded")>>

(* Missions of the run, rows already in the memo store, and the           *)
(* max_provider_timeout_retries the orchestrator was constructed with.     *)
Scenarios ==
  {<<<<MissionPlain>>, SeedEmpty, 2>>,
   <<<<MissionPlain, MissionOther>>, SeedEmpty, 2>>,
   <<<<MissionFib>>, SeedEmpty, 2>>,
   <<<<MissionFib>>, SeedCacheFib, 2>>,
   <<<<MissionFib, MissionOther>>, SeedCacheFib, 2>>,
   <<<<MissionFib, MissionOther>>, SeedRunMemoB, 2>>,
   <<<<MissionFib, MissionOther>>, SeedEmpty, 1>>,
   <<<<MissionWriteC>>, SeedCacheC, 2>>}

Checkpoint(s, node_name) == [run_id |-> s.run_id, step |-> s.step, node_name |-> node_name]

NodeRun(name, branch, planner, fallback) ==
  [node |-> name, branch |-> branch, planner_called |-> planner, fallback_called |-> fallback]

Init ==
  \E sc \in Scenarios :
    /\ state = new_run_state(sc[1])
    /\ memo_store = sc[2]
    /\ checkpoint_store = <<Checkpoint(new_run_state(sc[1]), "init")>>
    /\ node = "plan"
    /\ outcome = "running"
    /\ supersteps = 0
    /\ planner_calls = 0
    /\ last_run = NodeRun("START", "init", FALSE, FALSE)
    /\ max_provider_timeout_retries = sc[3]
    /\ derived_snapshot = NoSnapshot
    /\ put_log = <<>>
    /\ outboxes = <<>>

(***************************************************************************)
(* Graph driver (_compile_graph, run): one node per superstep, at most     *)
(* max_steps supersteps.                                                   *)
(***************************************************************************)
route_after_plan_never_loops(s) ==
  IF s.pending_action.action = "finish" THEN "finalize" ELSE "execute"

route_after_plan(s) ==
  IF s.pending_action = NoAction THEN "plan"
  ELSE IF s.pending_action.action = "finish" THEN "finalize"
  ELSE "execute"

CanRun_unlimited(name) == outcome = "running" /\ node = name

CanRun(name) == outcome = "running" /\ node = name /\ supersteps < max_steps

(* A node handler returned state s after taking the named branch. *)
NodeReturns(name, s, branch, node_name, next, planner, fallback) ==
  /\ state' = s
  /\ checkpoint_store' = IF node_name = "" THEN checkpoint_store
                         ELSE Append(checkpoint_store, Checkpoint(s, node_name))
  /\ node' = next
  /\ supersteps' = supersteps + 1
  /\ last_run' = NodeRun(name, branch, planner, fallback)
  /\ UNCHANGED <<outcome, max_provider_timeout_retries, derived_snapshot, put_log>>

(***************************************************************************)
(* Hard timeout around generate() (_generate_with_hard_timeout): every     *)
(* planner call gets a queue of its own with one slot and a daemon worker  *)
(* that puts the provider's result into it.  taken_by is the number of the *)
(* call whose get() received the item, 0 while nobody has.                 *)
(***************************************************************************)
Outbox(worker, items, taken_by) == [worker |-> worker, items |-> items, taken_by |-> taken_by]

(* What a worker left running by a timeout eventually returns. *)
LateResult == PlannerResponse("output", "json", FinishActionOf("late"))

(* One queue for all calls: get() receives whatever item is there first. *)
generate_with_shared_outbox(boxes, r) ==
  LET n == Len(boxes) + 1
      left == {m \in 1..Len(boxes) : boxes[m].items # <<>>}
  IN IF left # {}
       THEN LET m == CHOOSE k \in left : \A j \in left : k <= j
            IN [answer |-> boxes[m].items[1],
                outboxes |-> Append([boxes EXCEPT ![m] = Outbox("done", <<>>, n)],
                                    Outbox("running", <<>>, 0))]
     ELSE IF r.kind = "timeout"
       THEN [answer |-> r, outboxes |-> Append(boxes, Outbox("running", <<>>, 0))]
     ELSE [answer |-> r, outboxes |-> Append(boxes, Outbox("done", <<>>, n))]

(* The call of number Len(boxes) + 1, whose provider answers r within the  *)
(* timeout or (kind "timeout") not at all: get() on the call's own queue   *)
(* either receives the worker's item or runs into queue.Empty, which       *)
(* leaves the worker running.                                              *)
generate_with_hard_timeout(boxes, r) ==
  LET n == Len(boxes) + 1
  IN IF r.kind = "timeout"
       THEN [answer |-> r, outboxes |-> Append(boxes, Outbox("running", <<>>, 0))]
       ELSE [answer |-> r, outboxes |-> Append(boxes, Outbox("done", <<>>, n))]

(* A worker that outlived its call's timeout finishes generate() and puts  *)
(* the result into the queue of its call, which nobody reads any more.     *)
WorkerDelivers ==
  /\ \E n \in 1..Len(outboxes) :
       /\ outboxes[n].worker = "running"
       /\ outboxes' = [outboxes EXCEPT ![n] = Outbox("done", <<LateResult>>, 0)]
  /\ UNCHANGED <<state, memo_store, checkpoint_store, node, outcome, supersteps,
                 planner_calls, last_run, max_provider_timeout_retries,
                 derived_snapshot, put_log>>

(***************************************************************************)
(* Plan node (_plan_next_action), one action per way through it.           *)
(***************************************************************************)
Branch(s, branch, node_name) == [state |-> s, branch |-> branch, node_name |-> node_name]

PlanEntered_same_step == state

PlanEntered == [state EXCEPT !.step = @ + 1]
PlanCache == maybe_complete_next_write_from_cache(PlanEntered, memo_store)
PlanInTimeoutMode_never == FALSE

PlanInTimeoutMode == PlanCache.state.policy_flags.planner_timeout_mode
PlanModeFallback == deterministic_fallback_action(PlanCache.state)
PlanCallsPlanner ==
  /\ state.pending_action.action # "finish"
  /\ ~PlanCache.hit
  /\ ~(PlanInTimeoutMode /\ PlanModeFallback # NoAction)

FailTimeout == "Planner failed after provider timeout retries"
FailUnrecoverable == "Planner failed with unrecoverable provider error"
FailInvalid == "Planner failed to produce a valid JSON action"
FailValidation == "Run failed closed after repeated deterministic content validation failures"

plan_cache_reuse_without_finish(s) == Branch(s, "cache_reuse", "plan_cache_reuse")

plan_cache_reuse(s) ==
  IF all_missions_completed(s)
    THEN Branch([s EXCEPT !.pending_action = FinishActionOf(build_auto_finish_answer(s))],
                "cache_reuse", "plan_cache_reuse")
    ELSE Branch(s, "cache_reuse", "plan_cache_reuse")

plan_output_unchecked(s, action) ==
  Branch([s EXCEPT !.pending_action = action], "planned", "plan")

plan_output(s, action) ==
  IF action.action = "finish" /\ ~all_missions_completed(s)
    THEN Branch([AppendMessage(s, "finish_rejected") EXCEPT !.pending_action = NoAction],
                "finish_rejected", "plan_finish_rejected")
    ELSE Branch([s EXCEPT !.pending_action = action], "planned", "plan")

plan_provider_timeout_one_more(s) ==
  LET timeout_count == s.retry_counts.provider_timeout + 1
      s1 == [s EXCEPT !.retry_counts.provider_timeout = timeout_count]
      fallback_action == deterministic_fallback_action(s1)
  IN IF fallback_action # NoAction
       THEN Branch([AppendMessage(s1, "timeout_fallback")
                      EXCEPT !.policy_flags.planner_timeout_mode = TRUE,
                             !.pending_action = fallback_action],
                   "timeout_fallback", "plan_timeout_fallback")
     ELSE IF timeout_count > max_provider_timeout_retries
       THEN Branch([AppendMessage(s1, "fail_provider_timeout")
                      EXCEPT !.pending_action = FinishActionOf(FailTimeout)],
                   "fail_provider_timeout", "plan_fail_provider_timeout")
     ELSE Branch([AppendMessage(s1, "timeout_retry") EXCEPT !.pending_action = NoAction],
                 "provider_timeout", "plan_provider_timeout")

plan_provider_timeout(s) ==
  LET timeout_count == s.retry_counts.provider_timeout + 1
      s1 == [s EXCEPT !.retry_counts.provider_timeout = timeout_count]
      fallback_action == deterministic_fallback_action(s1)
  IN IF fallback_action # NoAction
       THEN Branch([AppendMessage(s1, "timeout_fallback")
                      EXCEPT !.policy_flags.planner_timeout_mode = TRUE,
                             !.pending_action = fallback_action],
                   "timeout_fallback", "plan_timeout_fallback")
     ELSE IF timeout_count >= max_provider_timeout_retries
       THEN Branch([AppendMessage(s1, "fail_provider_timeout")
                      EXCEPT !.pending_action = FinishActionOf(FailTimeout)],
                   "fail_provider_timeout", "plan_fail_provider_timeout")
     ELSE Branch([AppendMessage(s1, "timeout_retry") EXCEPT !.pending_action = NoAction],
                 "provider_timeout", "plan_provider_timeout")

plan_error_without_budget(s, error_text) ==
  LET s1 == [s EXCEPT !.retry_counts.invalid_json = @ + 1]
  IN IF is_unrecoverable_plan_error(error_text)
       THEN Branch([AppendMessage(s1, "fail_unrecoverable")
                      EXCEPT !.pending_action = FinishActionOf(FailUnrecoverable)],
                   "fail_unrecoverable", "plan_fail_unrecoverable")
     ELSE Branch([AppendMessage(s1, "invalid_action") EXCEPT !.pending_action = NoAction],
                 "error", "plan_error")

plan_error_one_more(s, error_text) ==
  LET invalid_count == s.retry_counts.invalid_json + 1
      s1 == [s EXCEPT !.retry_counts.invalid_json = invalid_count]
  IN IF is_unrecoverable_plan_error(error_text)
       THEN Branch([AppendMessage(s1, "fail_unrecoverable")
                      EXCEPT !.pending_action = FinishActionOf(FailUnrecoverable)],
                   "fail_unrecoverable", "plan_fail_unrecoverable")
     ELSE IF invalid_count > max_invalid_plan_retries
       THEN Branch([AppendMessage(s1, "fail_closed")
                      EXCEPT !.pending_action = FinishActionOf(FailInvalid)],
                   "fail_closed", "plan_fail_closed")
     ELSE Branch([AppendMessage(s1, "invalid_action") EXCEPT !.pending_action = NoAction],
                 "error", "plan_error")

plan_error(s, error_text) ==
  LET invalid_count == s.retry_counts.invalid_json + 1
      s1 == [s EXCEPT !.retry_counts.invalid_json = invalid_count]
  IN IF is_unrecoverable_plan_error(error_text)
       THEN Branch([AppendMessage(s1, "fail_unrecoverable")
                      EXCEPT !.pending_action = FinishActionOf(FailUnrecoverable)],
                   "fail_unrecoverable", "plan_fail_unrecoverable")
     ELSE IF invalid_count >= max_invalid_plan_retries
       THEN Branch([AppendMessage(s1, "fail_closed")
                      EXCEPT !.pending_action = FinishActionOf(FailInvalid)],
                   "fail_closed", "plan_fail_closed")
     ELSE Branch([AppendMessage(s1, "invalid_action") EXCEPT !.pending_action = NoAction],
                 "error", "plan_error")

PlanReturns(b, planner, fallback) ==
  /\ NodeReturns("plan", b.state, b.branch, b.node_name, route_after_plan(b.state),
                 planner, fallback)
  /\ planner_calls' = planner_calls + (IF planner THEN 1 ELSE 0)
  /\ UNCHANGED memo_store

PlanCarriedFinish_counting_step ==
  /\ CanRun("plan")
  /\ state.pending_action.action = "finish"
  /\ PlanReturns(Branch(PlanEntered, "carried_finish", ""), FALSE, FALSE)
  /\ UNCHANGED outboxes

PlanCarriedFinish ==
  /\ CanRun("plan")
  /\ state.pending_action.action = "finish"
  /\ PlanReturns(Branch(state, "carried_finish", ""), FALSE, FALSE)
  /\ UNCHANGED outboxes

PlanCacheReuse ==
  /\ CanRun("plan")
  /\ state.pending_action.action # "finish"
  /\ PlanCache.hit
  /\ PlanReturns(plan_cache_reuse(PlanCache.state), FALSE, FALSE)
  /\ UNCHANGED outboxes

PlanTimeoutMode ==
  /\ CanRun("plan")
  /\ state.pending_action.action # "finish"
  /\ ~PlanCache.hit
  /\ PlanInTimeoutMode
  /\ PlanModeFallback # NoAction
  /\ PlanReturns(Branch([PlanCache.state EXCEPT !.pending_action = PlanModeFallback],
                        "timeout_mode", "plan_timeout_mode"), FALSE, TRUE)
  /\ UNCHANGED outboxes

PlanPlannerOutput ==
  /\ CanRun("plan")
  /\ PlanCallsPlanner
  /\ \E r \in PlannerResponses :
     \E c \in {generate_with_hard_timeout(outboxes, r)} :
       /\ c.answer.kind = "output"
       /\ outboxes' = c.outboxes
       /\ LET s1 == AppendMessage(PlanCache.state, "progress")
              s2 == [AppendMessage(s1, "assistant")
                       EXCEPT !.policy_flags.planner_timeout_mode = FALSE]
              v == validate_action(c.answer)
          IN IF v.ok
               THEN PlanReturns(plan_output(s2, v.action), TRUE, PlanInTimeoutMode)
               ELSE PlanReturns(plan_error(s2, v.error), TRUE, PlanInTimeoutMode)

PlanProviderTimeout ==
  /\ CanRun("plan")
  /\ PlanCallsPlanner
  /\ \E r \in PlannerResponses :
     \E c \in {generate_with_hard_timeout(outboxes, r)} :
       /\ c.answer.kind = "timeout"
       /\ outboxes' = c.outboxes
       /\ PlanReturns(plan_provider_timeout(AppendMessage(PlanCache.state, "progress")),
                      TRUE, TRUE)

PlanProviderError ==
  /\ CanRun("plan")
  /\ PlanCallsPlanner
  /\ \E r \in PlannerResponses :
     \E c \in {generate_with_hard_timeout(outboxes, r)} :
       /\ c.answer.kind = "error"
       /\ outboxes' = c.outboxes
       /\ PlanReturns(plan_error(AppendMessage(PlanCache.state, "progress"), c.answer.text),
                      TRUE, PlanInTimeoutMode)

(***************************************************************************)
(* Execute node (_execute_action).                                         *)
(***************************************************************************)
Executed(s, store, branch, node_name) ==
  [state |-> s, store |-> store, branch |-> branch, node_name |-> node_name]

normalize_tool_args(tool_name, args) == args

InjectMemoArgs(s, tool_name, tool_args) ==
  LET a1 == IF tool_name \in HelperTools /\ tool_args.run_id = NoArg
              THEN [tool_args EXCEPT !.run_id = s.run_id] ELSE tool_args
  IN IF tool_name = "memoize" /\ a1.step = -1 THEN [a1 EXCEPT !.step = s.step] ELSE a1

Signature(tool_name, tool_args) == <<tool_name, tool_args>>

execute_duplicate_uncounted(s, store) ==
  IF next_incomplete_mission(s) = "" /\ all_missions_completed(s)
    THEN Executed([s EXCEPT !.pending_action = FinishActionOf(build_auto_finish_answer(s))],
                  store, "duplicate_finish", "execute_duplicate_finish")
    ELSE Executed([AppendMessage(s, "duplicate_tool") EXCEPT !.pending_action = NoAction],
                  store, "duplicate_tool", "execute_duplicate_tool")

execute_duplicate(s, store) ==
  LET s1 == [s EXCEPT !.retry_counts.duplicate_tool = @ + 1]
  IN IF next_incomplete_mission(s1) = "" /\ all_missions_completed(s1)
       THEN Executed([s1 EXCEPT !.pending_action = FinishActionOf(build_auto_finish_answer(s1))],
                     store, "duplicate_finish", "execute_duplicate_finish")
       ELSE Executed([AppendMessage(s1, "duplicate_tool") EXCEPT !.pending_action = NoAction],
                     store, "duplicate_tool", "execute_duplicate_tool")

execute_content_validation_at_budget(s, store) ==
  LET s1 == IF s.retry_counts.content_validation >= max_content_validation_retries
              THEN [s EXCEPT !.pending_action = FinishActionOf(FailValidation)]
              ELSE [s EXCEPT !.pending_action = NoAction]
  IN Executed([s1 EXCEPT !.policy_flags.last_tool_name = "",
                         !.policy_flags.last_tool_args = EmptyArgs,
                         !.policy_flags.last_tool_result = EmptyResult],
              store, "content_validation", "execute_content_validation")

execute_content_validation(s, store) ==
  LET s1 == IF s.retry_counts.content_validation > max_content_validation_retries
              THEN [s EXCEPT !.pending_action = FinishActionOf(FailValidation)]
              ELSE [s EXCEPT !.pending_action = NoAction]
  IN Executed([s1 EXCEPT !.policy_flags.last_tool_name = "",
                         !.policy_flags.last_tool_args = EmptyArgs,
                         !.policy_flags.last_tool_result = EmptyResult],
              store, "content_validation", "execute_content_validation")

execute_record_memoize_keeping_flags(s, tool_args, tool_result) ==
  [s EXCEPT !.memo_events =
              Append(@, MemoEvent(tool_result.key,
                                  IF tool_result.namespace = "" THEN "run"
                                  ELSE tool_result.namespace,
                                  IF tool_args.source_tool = NoArg THEN "memoize"
                                  ELSE tool_args.source_tool,
                                  s.step, tool_result.value_hash)),
            !.retry_counts.memo_policy = 0]

execute_record_memoize(s, tool_args, tool_result) ==
  [s EXCEPT !.memo_events =
              Append(@, MemoEvent(tool_result.key,
                                  IF tool_result.namespace = "" THEN "run"
                                  ELSE tool_result.namespace,
                                  IF tool_args.source_tool = NoArg THEN "memoize"
                                  ELSE tool_args.source_tool,
                                  s.step, tool_result.value_hash)),
            !.policy_flags.memo_required = FALSE,
            !.policy_flags.memo_required_key = NoKey,
            !.policy_flags.memo_required_reason = "",
            !.retry_counts.memo_policy = 0]

execute_tool(s, store, tool_name, tool_args) ==
  LET s1 == [s EXCEPT !.seen_tool_signatures = Append(@, Signature(tool_name, tool_args))]
      ran == ToolExecute(tool_name, tool_args, store)
      s2 == IF tool_name = "retrieve_memo" THEN record_retrieve_memo_trace(s1, ran.result)
            ELSE s1
      validation_error ==
        validate_tool_result_for_active_mission(s2, tool_name, tool_args, ran.result)
      tool_result == IF validation_error # "" THEN ErrorResult("content_validation_failed")
                     ELSE ran.result
      s3 == IF validation_error # "" THEN [s2 EXCEPT !.retry_counts.content_validation = @ + 1]
            ELSE s2
      s4 == AppendToolHistory(s3, tool_name, tool_args, tool_result)
      s5 == AppendMessage(record_mission_tool_event(s4, tool_name, tool_result, NoIndex),
                          "tool_result")
      cached == IF tool_name = "write_file" THEN cache_write_file_inputs(s5, ran.store, tool_args)
                ELSE [state |-> s5, store |-> ran.store]
      s6 == IF tool_name = "memoize" /\ tool_result.value_hash # NoHash
              THEN execute_record_memoize(cached.state, tool_args, tool_result)
              ELSE cached.state
  IN IF validation_error # "" THEN execute_content_validation(s5, ran.store)
     ELSE Executed([s6 EXCEPT !.policy_flags.last_tool_name = tool_name,
                              !.policy_flags.last_tool_args = tool_args,
                              !.policy_flags.last_tool_result = tool_result,
                              !.pending_action = NoAction],
                   cached.store, "executed", "execute")

(* After the auto-lookup: the memo-policy gate and everything behind it. *)
execute_gated(s, store, tool_name, tool_args) ==
  IF s.policy_flags.memo_required /\ tool_name # "memoize"
    THEN LET s1 == [s EXCEPT !.retry_counts.memo_policy = @ + 1]
         IN IF s1.retry_counts.memo_policy > max_policy_retries
              THEN Executed(s1, store, "policy_violation", "")
              ELSE Executed([AppendMessage(s1, "memo_required") EXCEPT !.pending_action = NoAction],
                            store, "policy_retry", "execute_policy_retry")
  ELSE IF tool_name \notin Tools
    THEN Executed([AppendMessage(s, "unknown_tool") EXCEPT !.pending_action = NoAction],
                  store, "unknown_tool", "execute_unknown_tool")
  ELSE LET args == InjectMemoArgs(s, tool_name, tool_args)
       IN IF InSeq(Signature(tool_name, args), s.seen_tool_signatures)
            THEN execute_duplicate(s, store)
            ELSE execute_tool(s, store, tool_name, args)

execute_action(s, store) ==
  LET action == s.pending_action
      tool_name == action.tool_name
      tool_args == normalize_tool_args(tool_name, action.args)
      lookup_candidates == memo_lookup_candidates_for_action(tool_name, tool_args)
      looks_up == /\ lookup_candidates # <<>>
                  /\ tool_name # "retrieve_memo"
                  /\ ~has_attempted_memo_lookup(s, lookup_candidates)
      lookup == auto_lookup_before_write(s, store, lookup_candidates)
      marked == IF tool_name = "write_file"
                  THEN mark_next_mission_complete_from_memo_hit(lookup.state, lookup.memo_hit)
                  ELSE lookup.state
  IN IF action = NoAction THEN Executed(s, store, "no_action", "")
     ELSE IF action.action = "finish"
       THEN Executed([s EXCEPT !.final_answer = action.answer], store, "finish", "")
     ELSE IF looks_up /\ lookup.found
       THEN Executed([AppendMessage(marked, "memo_hit") EXCEPT !.pending_action = NoAction],
                     store, "lookup_hit_skip", "execute_lookup_hit_skip")
     ELSE execute_gated(IF looks_up THEN lookup.state ELSE s, store, tool_name, tool_args)

ExecuteNode ==
  /\ CanRun("execute")
  /\ \E e \in {execute_action(state, memo_store)} :
        /\ e.branch # "policy_violation"
        /\ NodeReturns("execute", e.state, e.branch, e.node_name, "policy", FALSE, FALSE)
        /\ memo_store' = e.store
        /\ UNCHANGED <<planner_calls, outboxes>>

ExecuteRaises ==
  /\ CanRun("execute")
  /\ \E e \in {execute_action(state, memo_store)} :
        /\ e.branch = "policy_violation"
        /\ state' = e.state
        /\ outcome' = "MemoizationPolicyViolation"
        /\ supersteps' = supersteps + 1
        /\ last_run' = NodeRun("execute", e.branch, FALSE, FALSE)
        /\ UNCHANGED <<memo_store, checkpoint_store, node, planner_calls,
                       max_provider_timeout_retries, outboxes,
                       derived_snapshot, put_log>>

(***************************************************************************)
(* Policy node (_enforce_memo_policy).                                     *)
(***************************************************************************)
enforce_memo_policy_without_skips(s) ==
  LET last_tool_name == s.policy_flags.last_tool_name
      last_args == s.policy_flags.last_tool_args
      last_result == s.policy_flags.last_tool_result
  IN IF requires_memoization(last_tool_name, last_args, last_result)
       THEN Branch([AppendMessage(s, "policy_check")
                      EXCEPT !.policy_flags.memo_required = TRUE,
                             !.policy_flags.memo_required_key =
                                 suggested_memo_key(last_tool_name, last_args, last_result),
                             !.policy_flags.memo_required_reason = last_tool_name],
                   "memo_required", "policy")
     ELSE Branch(s, "not_required", "policy")

enforce_memo_policy(s) ==
  LET last_tool_name == s.policy_flags.last_tool_name
      last_args == s.policy_flags.last_tool_args
      last_result == s.policy_flags.last_tool_result
  IN IF last_tool_name = "" THEN Branch(s, "skip_empty", "")
     ELSE IF last_tool_name \in HelperTools THEN Branch(s, "skip_helper", "")
     ELSE IF requires_memoization(last_tool_name, last_args, last_result)
       THEN Branch([AppendMessage(s, "policy_check")
                      EXCEPT !.policy_flags.memo_required = TRUE,
                             !.policy_flags.memo_required_key =
                                 suggested_memo_key(last_tool_name, last_args, last_result),
                             !.policy_flags.memo_required_reason = last_tool_name],
                   "memo_required", "policy")
     ELSE Branch(s, "not_required", "policy")

PolicyNode ==
  /\ CanRun("policy")
  /\ LET b == enforce_memo_policy(state)
     IN NodeReturns("policy", b.state, b.branch, b.node_name, "plan", FALSE, FALSE)
  /\ UNCHANGED <<memo_store, planner_calls, outboxes>>

(***************************************************************************)
(* Finalize node (_finalize) and the end of run().                         *)
(***************************************************************************)
finalize_without_default(s) ==
  IF s.pending_action.action = "finish"
    THEN [s EXCEPT !.final_answer = Strip(s.pending_action.answer), !.pending_action = NoAction]
    ELSE s

finalize(s) ==
  LET s1 == IF s.pending_action.action = "finish"
              THEN [s EXCEPT !.final_answer = Strip(s.pending_action.answer),
                             !.pending_action = NoAction]
              ELSE s
  IN IF s1.final_answer = "" THEN [s1 EXCEPT !.final_answer = "Run completed."] ELSE s1

FinalizeNode ==
  /\ CanRun("finalize")
  /\ NodeReturns("finalize", finalize(state), "finalize", "finalize", "END", FALSE, FALSE)
  /\ UNCHANGED <<memo_store, planner_calls, outboxes>>

RunReturns ==
  /\ outcome = "running"
  /\ node = "END"
  /\ outcome' = "returned"
  /\ derived_snapshot' =
       build_derived_snapshot(state, list_entries(memo_store, state.run_id, "run"))
  /\ UNCHANGED <<state, memo_store, checkpoint_store, node, supersteps, planner_calls,
                 last_run, max_provider_timeout_retries, outboxes, put_log>>

RecursionLimit ==
  /\ outcome = "running"
  /\ node # "END"
  /\ supersteps >= max_steps
  /\ outcome' = "GraphRecursionError"
  /\ UNCHANGED <<state, memo_store, checkpoint_store, node, supersteps, planner_calls,
                 last_run, max_provider_timeout_retries, outboxes,
                 derived_snapshot, put_log>>

Next ==
  \/ PlanCarriedFinish
  \/ PlanCacheReuse
  \/ PlanTimeoutMode
  \/ PlanPlannerOutput
  \/ PlanProviderTimeout
  \/ PlanProviderError
  \/ ExecuteNode
  \/ ExecuteRaises
  \/ PolicyNode
  \/ FinalizeNode
  \/ RunReturns
  \/ RecursionLimit

Spec == Init /\ [][Next]_vars

(* The run together with the workers its timed-out planner calls left      *)
(* behind, which finish whenever they like, also after run() has returned. *)
NextWithWorkers ==
  \/ Next
  \/ WorkerDelivers

SpecWithWorkers == Init /\ [][NextWithWorkers]_vars

(***************************************************************************)
(* Properties.                                                             *)
(***************************************************************************)
Finalized == \E i \in 1..Len(checkpoint_store) : checkpoint_store[i].node_name = "finalize"

Raised == outcome \in {"MemoizationPolicyViolation", "GraphRecursionError"}

(* C1: the graph reaches END, and run() returns, only after the finalize   *)
(* node has run; once finalize has run, final_answer is a non-empty string *)
(* and stays one.                                                          *)
C1_TerminatesViaFinalize ==
  /\ (node = "END" \/ outcome = "returned") => (Finalized /\ last_run.node = "finalize")
  /\ Finalized => (state.final_answer # "" /\ node = "END")

(* C1 witness: a run returned whose finish answer was blank, so finalize   *)
(* installed the default answer.                                           *)
C1_Witness ==
  /\ outcome = "returned"
  /\ state.final_answer = "Run completed."
  /\ Len(state.completed_tasks) = Len(state.missions)

(* The run is failing closed with the given answer: the finish action is   *)
(* on its way to finalize, or finalize has installed it.                   *)
FailClosedWith(answer) ==
  \/ state.pending_action = FinishActionOf(answer) /\ node \in {"policy", "plan", "finalize"}
  \/ node = "END" /\ state.final_answer = answer

(* C2 as claimed: nothing but MemoizationPolicyViolation propagates out of *)
(* run(), whatever the planner answers.                                    *)
C2_OnlyPolicyViolationPropagates ==
  outcome \in {"running", "returned", "MemoizationPolicyViolation"}

(* C2 amended: run() raises only MemoizationPolicyViolation (at the memo   *)
(* policy gate, with the retry count over its budget) or the graph's       *)
(* recursion-limit error (with max_steps node executions used up); every   *)
(* failure class that fails closed carries its answer to finalize, and a   *)
(* run that returns has been finalized with a non-empty final_answer.      *)
C2_FailuresResolveInFinalizeOrLimit ==
  /\ outcome = "MemoizationPolicyViolation" =>
       /\ last_run.branch = "policy_violation"
       /\ state.retry_counts.memo_policy > max_policy_retries
  /\ outcome = "GraphRecursionError" => (supersteps = max_steps /\ node # "END")
  /\ outcome = "returned" => (Finalized /\ state.final_answer # "")
  /\ state.retry_counts.invalid_json >= max_invalid_plan_retries =>
       (FailClosedWith(FailInvalid) \/ FailClosedWith(FailUnrecoverable))
  /\ InSeq("fail_unrecoverable", state.messages) => FailClosedWith(FailUnrecoverable)
  /\ InSeq("fail_provider_timeout", state.messages) => FailClosedWith(FailTimeout)
  /\ state.retry_counts.content_validation > max_content_validation_retries =>
       FailClosedWith(FailValidation)

(* C2 witness: a run that used up the invalid-output budget returned from  *)
(* finalize with the diagnostic answer.                                    *)
C2_Witness ==
  /\ outcome = "returned"
  /\ state.retry_counts.invalid_json = max_invalid_plan_retries
  /\ state.final_answer = FailInvalid

(* Every anomaly the run has seen so far is a duplicate tool call.         *)
OnlyDuplicateAnomalies ==
  /\ state.retry_counts.duplicate_tool > 0
  /\ state.retry_counts.invalid_json = 0
  /\ state.retry_counts.memo_policy = 0
  /\ state.retry_counts.provider_timeout = 0
  /\ state.retry_counts.content_validation = 0
  /\ ~InSeq("finish_rejected", state.messages)
  /\ ~InSeq("unknown_tool", state.messages)
  /\ \A i \in 1..Len(state.tool_history) : ~HasError(state.tool_history[i].result)

(* C3 as claimed: a run whose only anomalies are duplicate tool calls is   *)
(* never aborted, however many duplicates the planner proposes.            *)
C3_DuplicatesNeverAbort == OnlyDuplicateAnomalies => ~Raised

(* The execute node is about to run its duplicate guard on a signature it  *)
(* has already seen.                                                       *)
AtDuplicateGuard ==
  /\ CanRun("execute")
  /\ state.pending_action.action = "tool"
  /\ state.pending_action.tool_name \in Tools
  /\ ~(state.policy_flags.memo_required /\ state.pending_action.tool_name # "memoize")
  /\ InSeq(Signature(state.pending_action.tool_name,
                     InjectMemoArgs(state, state.pending_action.tool_name,
                                    state.pending_action.args)),
           state.seen_tool_signatures)

(* C3 amended: a duplicate that reaches the duplicate guard is counted in  *)
(* retry_counts.duplicate_tool and soft-corrected: the tool is not run, no *)
(* exception is raised, and pending_action is cleared with a corrective    *)
(* message (or becomes the auto-finish when all missions are complete).    *)
(* Repeated duplicates can still exhaust the recursion limit.              *)
C3_DuplicateSoftCorrected ==
  [][AtDuplicateGuard =>
       /\ state'.retry_counts.duplicate_tool = state.retry_counts.duplicate_tool + 1
       /\ state'.tool_history = state.tool_history
       /\ memo_store' = memo_store
       /\ outcome' = "running"
       /\ node' = "policy"
       /\ \/ /\ state'.pending_action = NoAction
             /\ state'.messages = Append(state.messages, "duplicate_tool")
          \/ /\ state'.pending_action = FinishActionOf(AutoFinishAnswer)
             /\ all_missions_completed(state)]_vars

(* C3 witness: a duplicate was soft-corrected while missions remained, and *)
(* the run went on to the policy node.                                     *)
C3_Witness ==
  /\ last_run.branch = "duplicate_tool"
  /\ state.retry_counts.duplicate_tool = 2
  /\ Len(state.tool_history) = 1
  /\ state.pending_action = NoAction
  /\ node = "policy"

(* C4 as claimed: no two entries of tool_history have the same tool and    *)
(* the same args.                                                          *)
C4_NoRepeatedToolHistoryEntry ==
  \A i, j \in 1..Len(state.tool_history) :
    (i < j) => ~(/\ state.tool_history[i].tool = state.tool_history[j].tool
                 /\ state.tool_history[i].args = state.tool_history[j].args)

(* C5 as claimed: while memo_required is set, every tool that executes is  *)
(* memoize, and the flag is cleared only by a memoize that succeeded.      *)
C5_MemoRequiredForcesMemoize ==
  [][state.policy_flags.memo_required =>
       /\ \A i \in (Len(state.tool_history) + 1)..Len(state'.tool_history) :
            state'.tool_history[i].tool = "memoize"
       /\ ~state'.policy_flags.memo_required =>
            /\ Len(state'.tool_history) = Len(state.tool_history) + 1
            /\ state'.tool_history[Len(state'.tool_history)].tool = "memoize"
            /\ ~HasError(state'.tool_history[Len(state'.tool_history)].result)]_vars

(* The execute node is about to handle a tool action other than memoize    *)
(* while memo_required is set.                                             *)
AtMemoPolicyGate ==
  /\ CanRun("execute")
  /\ state.pending_action.action = "tool"
  /\ state.pending_action.tool_name # "memoize"
  /\ state.policy_flags.memo_required

(* C6 as claimed: with memo_required set and a proposed tool other than    *)
(* memoize, retry_counts.memo_policy is incremented, the violation is      *)
(* raised exactly when the count exceeds max_policy_retries, and otherwise *)
(* pending_action is cleared without the proposed tool being executed.     *)
C6_MemoPolicyGate ==
  [][AtMemoPolicyGate =>
       /\ state'.retry_counts.memo_policy = state.retry_counts.memo_policy + 1
       /\ (outcome' = "MemoizationPolicyViolation")
            <=> (state.retry_counts.memo_policy + 1 > max_policy_retries)
       /\ outcome' # "MemoizationPolicyViolation" =>
            /\ state'.pending_action = NoAction
            /\ \A i \in (Len(state.tool_history) + 1)..Len(state'.tool_history) :
                 state'.tool_history[i].tool # state.pending_action.tool_name]_vars

(* C7: a node execution moves along the graph's edges only: the run starts *)
(* at plan; plan goes to plan when pending_action is null, to finalize     *)
(* when it is a finish action and to execute otherwise; execute goes to    *)
(* policy, policy to plan, finalize to END.                                *)
C7_NodeEdges ==
  [][/\ supersteps = 0 => node = "plan"
     /\ (supersteps' # supersteps /\ outcome' = "running") =>
          \/ /\ node = "plan"
             /\ node' = (IF state'.pending_action = NoAction THEN "plan"
                         ELSE IF state'.pending_action.action = "finish" THEN "finalize"
                         ELSE "execute")
          \/ node = "execute" /\ node' = "policy"
          \/ node = "policy" /\ node' = "plan"
          \/ node = "finalize" /\ node' = "END"
     /\ supersteps' = supersteps => node' = node]_vars

(* C7 witness: every edge has been taken in one run: plan looped on a None *)
(* action, went through execute and policy, and reached END by finalize.   *)
C7_Witness ==
  /\ node = "END"
  /\ \E i, j, k \in 1..Len(checkpoint_store) :
       /\ checkpoint_store[i].node_name = "plan_error"
       /\ checkpoint_store[j].node_name = "execute"
       /\ checkpoint_store[k].node_name = "policy"

(* Node executions the recursion limit still allows, counting the end of   *)
(* run() itself as one more step.                                          *)
RemainingSteps == 2 * (max_steps - supersteps) + (IF outcome = "running" THEN 1 ELSE 0)

(* C8: a run executes at most max_steps nodes: every step of a run either  *)
(* executes one node against the recursion limit or ends the run, and the  *)
(* run ends with GraphRecursionError, a fatal failure of run(), exactly    *)
(* when the limit is used up before END.                                   *)
C8_RecursionLimitBoundsRun ==
  [][/\ RemainingSteps' < RemainingSteps
     /\ RemainingSteps' >= 0
     /\ outcome' = "GraphRecursionError" =>
          (supersteps' = max_steps /\ node' # "END" /\ state' = state)]_vars

(* C8 witness: a run that kept looping was cut off by the recursion limit. *)
C8_Witness ==
  /\ outcome = "GraphRecursionError"
  /\ supersteps = max_steps
  /\ state.final_answer = ""

(* C9 as claimed: step changes only in a plan-node entry that consults the *)
(* planner or the deterministic fallback.                                  *)
C9_StepOnlyWhenPlannerConsulted ==
  [][state'.step # state.step =>
       (last_run'.node = "plan" /\ (last_run'.planner_called \/ last_run'.fallback_called))]_vars

(* C9 amended: step never decreases; it is incremented exactly once by     *)
(* every plan-node entry that does not return at once on a carried-in      *)
(* finish action (cache-reuse hits included, which consult neither the     *)
(* planner nor the fallback), and nothing else changes it.                 *)
C9_StepOncePerPlanEntry ==
  [][/\ state'.step >= state.step
     /\ state'.step = state.step +
          (IF /\ node = "plan"
              /\ supersteps' = supersteps + 1
              /\ state.pending_action.action # "finish"
             THEN 1 ELSE 0)]_vars

(* C9 witness: a plan entry served from the write cache advanced step      *)
(* without any planner call.                                               *)
C9_Witness ==
  /\ last_run.branch = "cache_reuse"
  /\ state.step = 1
  /\ planner_calls = 0

(* C10: the i-th entry of tool_history carries call number i, whichever    *)
(* path appended it.                                                       *)
C10_DenseCallNumbers ==
  \A i \in 1..Len(state.tool_history) : state.tool_history[i].call = i

(* C10 witness: one history holds a cache-reuse write, an auto-lookup      *)
(* retrieve_memo and a planner-proposed tool.                              *)
C10_Witness ==
  /\ Len(state.tool_history) >= 3
  /\ state.policy_flags.cache_reuse_hits > 0
  /\ \E i \in 1..Len(state.tool_history) : state.tool_history[i].tool = "retrieve_memo"
  /\ \E i \in 1..Len(state.tool_history) : state.tool_history[i].tool \in {"sort_array", "memoize"}

(* C11: completed_tasks never holds more entries than there are missions:  *)
(* its entries are mission texts, each recorded at most once.              *)
C11_CompletedWithinMissions ==
  /\ Len(state.completed_tasks) <= Len(state.missions)
  /\ \A i \in 1..Len(state.completed_tasks) : InSeq(state.completed_tasks[i], state.missions)
  /\ \A i, j \in 1..Len(state.completed_tasks) :
       (state.completed_tasks[i] = state.completed_tasks[j]) => (i = j)

(* C11 witness: every mission is complete and a further tool has run       *)
(* successfully after that without adding to completed_tasks.              *)
C11_Witness ==
  /\ Len(state.completed_tasks) = Len(state.missions)
  /\ Cardinality({i \in 1..Len(state.tool_history) :
                    /\ state.tool_history[i].tool \notin HelperTools
                    /\ ~HasError(state.tool_history[i].result)}) > Len(state.missions)

(* C12: a step that appends a tool_history entry for a tool other than the *)
(* memo helpers appends exactly one such entry, and completed_tasks grows  *)
(* by one entry or by none in that step, keeping the entries it had.       *)
C12_NonHelperEntryCompletesAtMostOne ==
  [][LET old == Len(state.tool_history)
         nonhelper == {i \in (old + 1)..Len(state'.tool_history) :
                         state'.tool_history[i].tool \notin HelperTools}
     IN nonhelper # {} =>
          /\ Cardinality(nonhelper) = 1
          /\ Len(state'.completed_tasks) - Len(state.completed_tasks) \in {0, 1}
          /\ SubSeq(state'.completed_tasks, 1, Len(state.completed_tasks))
               = state.completed_tasks]_vars

(* C12 witness: a write replayed from the cache completed one mission, and *)
(* a later tool call that failed completed none.                           *)
C12_Witness ==
  /\ state.policy_flags.cache_reuse_hits = 1
  /\ Len(state.completed_tasks) = 1
  /\ Len(state.tool_history) >= 2
  /\ state.tool_history[1].tool = "write_file"
  /\ state.tool_history[Len(state.tool_history)].tool \notin HelperTools
  /\ HasError(state.tool_history[Len(state.tool_history)].result)

(* C13 as claimed: a signature is in seen_tool_signatures exactly when its *)
(* (tool, args) pair has been executed in the run, i.e. has an entry in    *)
(* tool_history, whichever path executed it.                               *)
C13_SignatureIffExecuted ==
  /\ \A i \in 1..Len(state.tool_history) :
       InSeq(Signature(state.tool_history[i].tool, state.tool_history[i].args),
             state.seen_tool_signatures)
  /\ \A k \in 1..Len(state.seen_tool_signatures) :
       \E i \in 1..Len(state.tool_history) :
         Signature(state.tool_history[i].tool, state.tool_history[i].args)
           = state.seen_tool_signatures[k]

(* The plan node is about to consult the planner while missions remain.    *)
PlannerConsultedWhileIncomplete ==
  /\ CanRun("plan")
  /\ PlanCallsPlanner
  /\ ~all_missions_completed(PlanCache.state)

(* C14: a plan entry that consults the planner while fewer tasks are       *)
(* completed than there are missions never leaves a planner finish action  *)
(* pending (a finish left pending is a fail-closed diagnostic); a rejected *)
(* finish clears pending_action, appends the rejection message, completes  *)
(* no task and routes back to plan, so finalize is not reached by it.      *)
C14_PrematureFinishRejected ==
  [][(PlannerConsultedWhileIncomplete /\ supersteps' = supersteps + 1) =>
       /\ node' # "finalize" =>
            (state'.pending_action.action # "finish" /\ node' \in {"plan", "execute"})
       /\ node' = "finalize" =>
            state'.pending_action \in {FinishActionOf(FailInvalid), FinishActionOf(FailTimeout),
                                       FinishActionOf(FailUnrecoverable)}
       /\ last_run'.branch = "finish_rejected" =>
            /\ state'.pending_action = NoAction
            /\ node' = "plan"
            /\ state'.messages[Len(state'.messages)] = "finish_rejected"
            /\ state'.completed_tasks = state.completed_tasks
            /\ state'.final_answer = state.final_answer]_vars

(* C14 witness: with one of two missions complete, the planner's finish    *)
(* was rejected and the run is back at plan.                               *)
C14_Witness ==
  /\ last_run.branch = "finish_rejected"
  /\ node = "plan"
  /\ state.pending_action = NoAction
  /\ Len(state.completed_tasks) = 1
  /\ Len(state.missions) = 2

(* The plan node is entered without a carried-in finish action.            *)
PlanEntry == CanRun("plan") /\ state.pending_action.action # "finish"

(* C15 as claimed: a plan entry that finds all missions complete after the *)
(* cache-reuse shortcut sets the auto-summary finish action and returns    *)
(* without calling the planner.                                            *)
C15_AutoFinishWhenAllComplete ==
  [][(PlanEntry /\ all_missions_completed(PlanCache.state) /\ supersteps' = supersteps + 1) =>
       /\ state'.pending_action = FinishActionOf(AutoFinishAnswer)
       /\ planner_calls' = planner_calls]_vars

(* C15 amended: the auto-summary finish is set only inside the cache-reuse *)
(* shortcut.  A plan entry whose cache-reuse shortcut hits never calls the *)
(* planner: it sets the auto-summary finish and routes to finalize when    *)
(* all missions are then complete, and otherwise leaves pending_action     *)
(* alone and re-enters plan.  A plan entry without a cache-reuse hit that  *)
(* finds all missions complete goes on to the planner (or, in timeout      *)
(* mode, to the deterministic fallback) like any other; there the          *)
(* auto-summary finish comes from the deterministic fallback alone.        *)
C15_AutoFinishOnCacheReuseOnly ==
  [][(PlanEntry /\ supersteps' = supersteps + 1) =>
       /\ PlanCache.hit =>
            /\ planner_calls' = planner_calls
            /\ IF all_missions_completed(PlanCache.state)
                 THEN /\ state'.pending_action = FinishActionOf(AutoFinishAnswer)
                      /\ node' = "finalize"
                 ELSE /\ state'.pending_action = state.pending_action
                      /\ node' = "plan"
       /\ (~PlanCache.hit /\ all_missions_completed(PlanCache.state)) =>
            /\ \/ planner_calls' = planner_calls + 1
               \/ last_run'.branch = "timeout_mode"
            /\ state'.pending_action = FinishActionOf(AutoFinishAnswer) =>
                 last_run'.branch \in {"timeout_mode", "timeout_fallback"}]_vars

(* C15 witness: the only mission was completed by a cache-reuse write and  *)
(* the plan node set the auto-summary finish without any planner call.     *)
C15_Witness ==
  /\ last_run.branch = "cache_reuse"
  /\ state.pending_action = FinishActionOf(AutoFinishAnswer)
  /\ node = "finalize"
  /\ planner_calls = 0
  /\ Len(state.completed_tasks) = Len(state.missions)

(* Invalid planner outputs at the end of the message log with nothing but  *)
(* planner prompts and outputs between them: the failures in a row.        *)
RECURSIVE trailing_invalid_outputs(_, _)
trailing_invalid_outputs(messages, i) ==
  IF i = 0 THEN 0
  ELSE IF messages[i] \in {"invalid_action", "fail_closed"}
    THEN 1 + trailing_invalid_outputs(messages, i - 1)
  ELSE IF messages[i] \in {"progress", "assistant"}
    THEN trailing_invalid_outputs(messages, i - 1)
  ELSE 0

ConsecutiveInvalidOutputs == trailing_invalid_outputs(state.messages, Len(state.messages))

LastCheckpoint == checkpoint_store[Len(checkpoint_store)]

(* C16 as claimed: the run fails closed on invalid planner output only     *)
(* after max_invalid_plan_retries failures in a row; a failure that is not *)
(* the last of so many in a row is retried.                                *)
C16_FailClosedAfterConsecutiveFailures ==
  InSeq("fail_closed", state.messages) =>
    ConsecutiveInvalidOutputs >= max_invalid_plan_retries

(* C16 amended: retry_counts.invalid_json counts the failed planner calls  *)
(* of the whole run and is never reset by a valid action.  A recoverable   *)
(* invalid output is retried (pending_action cleared, plan re-entered)     *)
(* while the count stays below max_invalid_plan_retries, and the failure   *)
(* that brings the count to max_invalid_plan_retries, consecutive or not,  *)
(* fails closed with the diagnostic finish action.                         *)
C16_InvalidOutputBudget ==
  [][/\ state'.retry_counts.invalid_json >= state.retry_counts.invalid_json
     /\ (/\ Len(checkpoint_store') = Len(checkpoint_store) + 1
         /\ LastCheckpoint'.node_name \in {"plan_error", "plan_fail_closed"}) =>
          /\ state'.retry_counts.invalid_json = state.retry_counts.invalid_json + 1
          /\ planner_calls' = planner_calls + 1
          /\ IF state'.retry_counts.invalid_json >= max_invalid_plan_retries
               THEN /\ state'.pending_action = FinishActionOf(FailInvalid)
                    /\ node' = "finalize"
                    /\ LastCheckpoint'.node_name = "plan_fail_closed"
               ELSE /\ state'.pending_action = NoAction
                    /\ node' = "plan"
                    /\ state'.messages[Len(state'.messages)] = "invalid_action"]_vars

(* C16 witness: a run failed closed on its third invalid planner output    *)
(* although a tool had been planned and executed between the failures.     *)
C16_Witness ==
  /\ outcome = "returned"
  /\ state.final_answer = FailInvalid
  /\ state.retry_counts.invalid_json = max_invalid_plan_retries
  /\ ConsecutiveInvalidOutputs < max_invalid_plan_retries
  /\ Len(state.tool_history) > 0

(* The plan node consults the planner and the call raises the given        *)
(* provider error, which carries one of the unrecoverable markers.         *)
PlannerRaisesUnrecoverable(r) ==
  /\ r.kind = "error"
  /\ r.text \in {"model not found", "invalid api key", "authentication", "permission",
                 "insufficient_quota", "rate limit exceeded"}
  /\ CanRun("plan")
  /\ PlanCallsPlanner
  /\ PlanReturns(plan_error(AppendMessage(PlanCache.state, "progress"), r.text),
                 TRUE, PlanInTimeoutMode)

(* C17: an unrecoverable provider error fails the run closed on its first  *)
(* occurrence, whatever is left of the invalid-output budget: the plan     *)
(* node sets the diagnostic finish action and routes to finalize, and once *)
(* that has happened the planner is never called again and a run that     *)
(* returns carries the diagnostic answer.                                  *)
C17_UnrecoverableShortCircuits ==
  [][/\ \A r \in PlannerResponses :
          PlannerRaisesUnrecoverable(r) =>
            /\ state'.pending_action = FinishActionOf(FailUnrecoverable)
            /\ node' = "finalize"
            /\ LastCheckpoint'.node_name = "plan_fail_unrecoverable"
            /\ state'.messages[Len(state'.messages)] = "fail_unrecoverable"
     /\ InSeq("fail_unrecoverable", state.messages) =>
          /\ planner_calls' = planner_calls
          /\ node \in {"finalize", "END"}
          /\ outcome' = "returned" => state'.final_answer = FailUnrecoverable]_vars

(* C17 witness: the first planner call of a run raised an unrecoverable    *)
(* error and the run returned the diagnostic answer after that one call,   *)
(* with the invalid-output budget barely touched.                          *)
C17_Witness ==
  /\ outcome = "returned"
  /\ state.final_answer = FailUnrecoverable
  /\ planner_calls = 1
  /\ state.retry_counts.invalid_json = 1
  /\ state.retry_counts.invalid_json < max_invalid_plan_retries

(* The step just taken was a plan node whose planner call timed out: it    *)
(* saved one of the three checkpoints of the ProviderTimeoutError branch.  *)
PlannerTimedOut ==
  /\ Len(checkpoint_store') = Len(checkpoint_store) + 1
  /\ LastCheckpoint'.node_name \in {"plan_timeout_fallback", "plan_provider_timeout",
                                    "plan_fail_provider_timeout"}

(* C18: every planner timeout, and nothing else, adds one to               *)
(* retry_counts.provider_timeout.  If the deterministic fallback has an    *)
(* action, that action becomes pending and timeout mode is switched on;    *)
(* otherwise the call is retried (pending_action cleared, plan re-entered) *)
(* while the count is below max_provider_timeout_retries, and once the     *)
(* count has reached it the plan node fails closed with the diagnostic     *)
(* finish action, after which the planner is not called again.             *)
C18_ProviderTimeoutBudget ==
  [][/\ state'.retry_counts.provider_timeout # state.retry_counts.provider_timeout =>
          PlannerTimedOut
     /\ PlannerTimedOut =>
          /\ state'.retry_counts.provider_timeout = state.retry_counts.provider_timeout + 1
          /\ planner_calls' = planner_calls + 1
          /\ IF deterministic_fallback_action(state') # NoAction
               THEN /\ state'.pending_action = deterministic_fallback_action(state')
                    /\ state'.policy_flags.planner_timeout_mode
                    /\ node' \in {"execute", "finalize"}
                    /\ LastCheckpoint'.node_name = "plan_timeout_fallback"
             ELSE IF state'.retry_counts.provider_timeout >= max_provider_timeout_retries
               THEN /\ state'.pending_action = FinishActionOf(FailTimeout)
                    /\ node' = "finalize"
                    /\ LastCheckpoint'.node_name = "plan_fail_provider_timeout"
             ELSE /\ state'.pending_action = NoAction
                  /\ node' = "plan"
                  /\ LastCheckpoint'.node_name = "plan_provider_timeout"
     /\ InSeq("fail_provider_timeout", state.messages) =>
          /\ planner_calls' = planner_calls
          /\ outcome' = "returned" => state'.final_answer = FailTimeout]_vars

(* C18 witness: with no fallback available a timed-out call was retried    *)
(* and the timeout that exhausted the budget failed the run closed.        *)
C18_Witness ==
  /\ outcome = "returned"
  /\ state.final_answer = FailTimeout
  /\ InSeq("timeout_retry", state.messages)
  /\ ~InSeq("timeout_fallback", state.messages)
  /\ state.retry_counts.provider_timeout = max_provider_timeout_retries

(* Every planner call of the run so far ran into the hard timeout: each    *)
(* timeout, and nothing else, adds one to retry_counts.provider_timeout.   *)
PlannerAlwaysBlocked == planner_calls = state.retry_counts.provider_timeout

(* C19: when the planner blocks on every call, the run makes at most       *)
(* max_provider_timeout_retries planner calls (each costing one hard       *)
(* timeout) and, once that many have timed out, is on its way out through   *)
(* finalize.                                                               *)
C19_BlockedPlannerBoundedCalls ==
  PlannerAlwaysBlocked =>
    /\ planner_calls <= max_provider_timeout_retries
    /\ (planner_calls = max_provider_timeout_retries /\ outcome = "returned") =>
         Finalized

(* The step just taken was the late put of a worker whose call had timed   *)
(* out.                                                                    *)
LateDelivery ==
  \E n \in 1..Len(outboxes) :
    /\ outboxes[n].worker = "running"
    /\ outboxes'[n].worker = "done"

(* C20: a planner call that times out leaves its worker running with the   *)
(* call's queue empty; when that worker delivers later, at whatever point  *)
(* of the run or after it, nothing of the run changes (state, stores,      *)
(* position in the graph, outcome); the item stays in that queue for good, *)
(* and the item a planner call receives is always the one its own worker   *)
(* put, never the finish "late" of an earlier call's worker.               *)
C20_LateResultDiscarded ==
  [][/\ LateDelivery =>
          UNCHANGED <<state, memo_store, checkpoint_store, node, outcome, supersteps,
                      planner_calls, last_run, derived_snapshot, put_log>>
     /\ \A n \in 1..Len(outboxes) :
          outboxes[n].items # <<>> => outboxes'[n] = outboxes[n]
     /\ PlannerTimedOut =>
          /\ Len(outboxes') = Len(outboxes) + 1
          /\ outboxes'[Len(outboxes')] = Outbox("running", <<>>, 0)
     /\ Len(outboxes') = planner_calls'
     /\ \A n \in 1..Len(outboxes') : outboxes'[n].taken_by \in {0, n}
     /\ state'.pending_action # LateResult.action
     /\ state'.final_answer # "late"]_vars

(* C20 witness: the worker of a timed-out call delivered late, a later     *)
(* planner call was answered by its own worker, and the run returned with  *)
(* the late item still sitting in its queue.                               *)
C20_Witness ==
  /\ outcome = "returned"
  /\ \E m, n \in 1..Len(outboxes) :
       /\ m < n
       /\ outboxes[m] = Outbox("done", <<LateResult>>, 0)
       /\ outboxes[n].taken_by = n

(* The plan node is entered in timeout mode and gets past the carried      *)
(* finish and the cache-reuse shortcut.                                    *)
PlanEntryInTimeoutMode ==
  /\ CanRun("plan")
  /\ state.pending_action.action # "finish"
  /\ ~PlanCache.hit
  /\ state.policy_flags.planner_timeout_mode

(* C21: a plan entry in timeout mode asks the deterministic fallback       *)
(* first.  If the fallback has an action, that action becomes              *)
(* pending_action and the planner is not called in this entry; only when   *)
(* the fallback has none is the planner called.                            *)
C21_TimeoutModePrefersFallback ==
  [][(PlanEntryInTimeoutMode /\ supersteps' = supersteps + 1) =>
       IF deterministic_fallback_action(PlanCache.state) # NoAction
         THEN /\ state'.pending_action = deterministic_fallback_action(PlanCache.state)
              /\ planner_calls' = planner_calls
              /\ LastCheckpoint'.node_name = "plan_timeout_mode"
              /\ node' \in {"execute", "finalize"}
         ELSE /\ planner_calls' = planner_calls + 1
              /\ LastCheckpoint'.node_name # "plan_timeout_mode"]_vars

(* C21 witness: in one run a plan entry in timeout mode took the fallback  *)
(* action without a planner call, and a later entry, still in timeout      *)
(* mode but with no fallback action, called the planner.                   *)
C21_Witness ==
  /\ \E i \in 1..Len(checkpoint_store) : checkpoint_store[i].node_name = "plan_timeout_mode"
  /\ last_run.node = "plan"
  /\ last_run.branch = "planned"
  /\ last_run.planner_called
  /\ last_run.fallback_called
  /\ planner_calls = 2

(* The step just taken was a plan node that took the deterministic         *)
(* fallback's action, in timeout mode or right after a timeout.            *)
FallbackActionTaken ==
  /\ Len(checkpoint_store') = Len(checkpoint_store) + 1
  /\ LastCheckpoint'.node_name \in {"plan_timeout_mode", "plan_timeout_fallback"}

ContentValidationFailed ==
  /\ Len(checkpoint_store') = Len(checkpoint_store) + 1
  /\ LastCheckpoint'.node_name = "execute_content_validation"

(* C23: every content validation failure, and nothing else, adds one to    *)
(* retry_counts.content_validation.  If the count is then over             *)
(* max_content_validation_retries, pending_action becomes the finish       *)
(* action with the failure message, otherwise pending_action is cleared    *)
(* for a retry; either way last_tool_name, last_tool_args and              *)
(* last_tool_result are cleared.                                           *)
C23_ContentValidationBudget ==
  [][/\ state'.retry_counts.content_validation # state.retry_counts.content_validation =>
          ContentValidationFailed
     /\ ContentValidationFailed =>
          /\ state'.retry_counts.content_validation =
               state.retry_counts.content_validation + 1
          /\ IF state'.retry_counts.content_validation > max_content_validation_retries
               THEN state'.pending_action = FinishActionOf(FailValidation)
               ELSE state'.pending_action = NoAction
          /\ state'.policy_flags.last_tool_name = ""
          /\ state'.policy_flags.last_tool_args = EmptyArgs
          /\ state'.policy_flags.last_tool_result = EmptyResult
          /\ state'.tool_history[Len(state'.tool_history)].result =
               ErrorResult("content_validation_failed")]_vars

(* C23 witness: a first validation failure was retried, the second went    *)
(* over the budget, and the run returned the failure message.              *)
C23_Witness ==
  /\ outcome = "returned"
  /\ state.final_answer = FailValidation
  /\ state.retry_counts.content_validation = max_content_validation_retries + 1

(* The tool_history entries the step just taken appended whose result      *)
(* carries an error.                                                       *)
NewFailedCalls ==
  {i \in (Len(state.tool_history) + 1)..Len(state'.tool_history) :
     HasError(state'.tool_history[i].result)}

(* C24: a tool call whose result carries an error, from the tool itself or *)
(* from content validation, is recorded like any other call (numbered      *)
(* tool_history entry, call count, attached to the active mission's        *)
(* report) and completes no mission.                                       *)
C24_FailedCallRecordedNotCompleting ==
  [][NewFailedCalls # {} =>
       /\ state'.completed_tasks = state.completed_tasks
       /\ \A i \in NewFailedCalls :
            /\ state'.tool_history[i].call = i
            /\ state'.tool_call_counts[state'.tool_history[i].tool] =
                 state.tool_call_counts[state'.tool_history[i].tool] + 1
            /\ \E m \in 1..Len(state'.mission_reports) :
                 \E k \in (Len(state.mission_reports[m].tool_results) + 1)..
                            Len(state'.mission_reports[m].tool_results) :
                      state'.mission_reports[m].tool_results[k] =
                        [tool |-> state'.tool_history[i].tool,
                         result |-> state'.tool_history[i].result]]_vars

(* C24 witness: a run recorded a call that failed content validation and a *)
(* call that failed inside the tool, and no mission is complete.           *)
C24_Witness ==
  /\ state.completed_tasks = <<>>
  /\ \E i, j \in 1..Len(state.tool_history) :
       /\ state.tool_history[i].result = ErrorResult("content_validation_failed")
       /\ state.tool_history[j].tool = "sort_array"
       /\ HasError(state.tool_history[j].result)

(* The execute node runs a planned write_file with a path.                 *)
ExecutesProposedWrite ==
  /\ CanRun("execute")
  /\ state.pending_action.action = "tool"
  /\ state.pending_action.tool_name = "write_file"
  /\ Strip(ArgStr(state.pending_action.args.path)) # ""

ProposedWritePath == Strip(ArgStr(state.pending_action.args.path))

(* Whether retrieve_memo was already run with the key in the state the     *)
(* step started from.                                                      *)
LookupTried(key) ==
  \E i \in 1..Len(state.tool_history) :
    /\ state.tool_history[i].tool = "retrieve_memo"
    /\ state.tool_history[i].args.key = key

(* The positions of the tool_history entries the step just taken appended. *)
NewCalls == (Len(state.tool_history) + 1)..Len(state'.tool_history)

NewLookups == {i \in NewCalls : state'.tool_history[i].tool = "retrieve_memo"}

NewLookupEvents ==
  {i \in (Len(state.memo_events) + 1)..Len(state'.memo_events) :
     state'.memo_events[i].source_tool \in {"retrieve_memo_hit", "retrieve_memo_miss"}}

(* C25 as claimed: a proposed write_file is executed only after            *)
(* retrieve_memo has been run, in this step, for each of the two keys      *)
(* write_file:<full-path> and write_file:<basename> that was not tried     *)
(* before in the run, and the first write to fib.txt of a run gives a      *)
(* tool_history beginning retrieve_memo, retrieve_memo, write_file.        *)
C25_LooksUpEachUntriedKey ==
  [][(ExecutesProposedWrite /\ \E w \in NewCalls : state'.tool_history[w].tool = "write_file") =>
       /\ \A key \in {<<"write_file", ProposedWritePath>>,
                      <<"write_file", Basename(ProposedWritePath)>>} :
            ~LookupTried(key) =>
              \E i \in NewLookups : state'.tool_history[i].args.key = key
       /\ (state.tool_history = <<>> /\ ProposedWritePath = PathFib) =>
            /\ Len(state'.tool_history) = 3
            /\ state'.tool_history[1].tool = "retrieve_memo"
            /\ state'.tool_history[2].tool = "retrieve_memo"
            /\ state'.tool_history[3].tool = "write_file"]_vars

(* C25 amended: the lookup keys of a proposed write_file are               *)
(* write_file:<full-path> and, only when the basename differs from the     *)
(* path, write_file:<basename>.  If retrieve_memo was already run in this  *)
(* run for any one of them, no lookup is made at all; otherwise            *)
(* retrieve_memo is run for the keys in that order up to the first hit,    *)
(* each lookup appending one memo_event, and the write comes after the     *)
(* lookups and only when none of them hit.                                 *)
C25_AutoLookupBeforeWrite ==
  [][ExecutesProposedWrite =>
       LET path == ProposedWritePath
           keys == IF Basename(path) # path
                     THEN <<<<"write_file", path>>, <<"write_file", Basename(path)>>>>
                     ELSE <<<<"write_file", path>>>>
           old == Len(state.tool_history)
       IN /\ Cardinality(NewLookupEvents) = Cardinality(NewLookups)
          /\ IF \E k \in 1..Len(keys) : LookupTried(keys[k])
               THEN NewLookups = {}
               ELSE /\ NewLookups # {}
                    /\ Cardinality(NewLookups) <= Len(keys)
                    /\ \A i \in NewLookups :
                         /\ i - old <= Cardinality(NewLookups)
                         /\ state'.tool_history[i].args.key = keys[i - old]
                         /\ state'.tool_history[i].result.found =>
                              /\ i - old = Cardinality(NewLookups)
                              /\ NewCalls = NewLookups
                    /\ (\A i \in NewLookups : ~state'.tool_history[i].result.found) =>
                         Cardinality(NewLookups) = Len(keys)]_vars

(* C25 witness: the first write of a run to a path with a directory part   *)
(* was preceded by the two lookups, full path then basename.               *)
C25_Witness ==
  /\ Len(state.tool_history) = 3
  /\ state.tool_history[1].tool = "retrieve_memo"
  /\ state.tool_history[1].args.key = <<"write_file", PathB>>
  /\ state.tool_history[2].tool = "retrieve_memo"
  /\ state.tool_history[2].args.key = <<"write_file", BaseB>>
  /\ state.tool_history[3].tool = "write_file"
  /\ state.tool_history[3].args.path = PathB
  /\ Len(state.memo_events) >= 2

(* The step just taken was an execute node whose auto-lookup hit.          *)
LookupHitSkip ==
  /\ Len(checkpoint_store') = Len(checkpoint_store) + 1
  /\ LastCheckpoint'.node_name = "execute_lookup_hit_skip"

(* C26: when a lookup made before a proposed write_file hits, the lookups  *)
(* stop there, the next incomplete mission (if there is one) is appended   *)
(* to completed_tasks and its report gets the hit as result,               *)
(* pending_action is cleared, and the write is not executed: no write_file *)
(* entry is recorded and the memo store is left as it was.                 *)
C26_LookupHitCompletesMissionSkipsWrite ==
  [][LookupHitSkip =>
       LET hit == state'.tool_history[Len(state'.tool_history)]
           mission_text == next_incomplete_mission(state)
       IN /\ ExecutesProposedWrite
          /\ hit.tool = "retrieve_memo"
          /\ hit.result.found
          /\ \A i \in NewCalls :
               /\ state'.tool_history[i].tool = "retrieve_memo"
               /\ i < Len(state'.tool_history) => ~state'.tool_history[i].result.found
          /\ state'.pending_action = NoAction
          /\ memo_store' = memo_store
          /\ state'.tool_call_counts["write_file"] = state.tool_call_counts["write_file"]
          /\ node' = "policy"
          /\ IF mission_text = ""
               THEN state'.completed_tasks = state.completed_tasks
               ELSE /\ state'.completed_tasks = Append(state.completed_tasks, mission_text)
                    /\ \E m \in 1..Len(state'.mission_reports) :
                         /\ state'.mission_reports[m].mission = mission_text
                         /\ state'.mission_reports[m].result = hit.result]_vars

(* C26 witness: a proposed write was skipped on a lookup hit and the        *)
(* mission that was next is complete without any write_file call.          *)
C26_Witness ==
  /\ last_run.branch = "lookup_hit_skip"
  /\ Len(state.completed_tasks) = 1
  /\ state.tool_call_counts["write_file"] = 0
  /\ state.pending_action = NoAction

(* The step just taken was a plan node that took the cache-reuse shortcut. *)
CacheReuseHit ==
  /\ Len(checkpoint_store') = Len(checkpoint_store) + 1
  /\ LastCheckpoint'.node_name = "plan_cache_reuse"

(* C27: when the plan node finds the inputs of the next incomplete write   *)
(* mission in the cross-run cache, it executes write_file itself: no        *)
(* planner call, one new tool_history entry (that write_file),             *)
(* cache_reuse_hits one higher, and the mission complete; the mission's    *)
(* one write_file entry stays its only one.                                *)
C27_CacheReuseCompletesWriteMission ==
  [][CacheReuseHit =>
       /\ planner_calls' = planner_calls
       /\ Len(state'.tool_history) = Len(state.tool_history) + 1
       /\ state'.tool_history[Len(state'.tool_history)].tool = "write_file"
       /\ state'.policy_flags.cache_reuse_hits = state.policy_flags.cache_reuse_hits + 1
       /\ next_incomplete_mission(state) # ""
       /\ state'.completed_tasks =
            Append(state.completed_tasks, next_incomplete_mission(state))
       /\ state'.policy_flags.cache_reuse_hits <= Len(state'.completed_tasks)]_vars

NewCacheEvents ==
  {i \in (Len(state.memo_events) + 1)..Len(state'.memo_events) :
     state'.memo_events[i].source_tool = "write_file_cache"}

(* The write_file entries the execute node just recorded, and those among  *)
(* them whose result carries no error.                                     *)
NewWrites == {i \in NewCalls : state'.tool_history[i].tool = "write_file"}
NewSuccessfulWrites == {i \in NewWrites : ~HasError(state'.tool_history[i].result)}

WriteCacheKeys(path) ==
  {<<"write_file_input", path>>, <<"write_file_input", Basename(path)>>}

(* C28: the execute node stores write inputs in the cross-run cache if and *)
(* only if the tool it executed was a write_file that succeeded: then      *)
(* {path, content} is the latest cache entry, run_id "shared", under       *)
(* write_file_input:<path> and write_file_input:<basename>, with one       *)
(* write_file_cache memo_event for each key; in any other step no          *)
(* write_file_cache event is appended and the cache is left alone.         *)
C28_CacheStoredIffSuccessfulWrite ==
  [][CanRun("execute") =>
       IF NewSuccessfulWrites # {}
         THEN \A w \in NewSuccessfulWrites :
                LET path == Strip(ArgStr(state'.tool_history[w].args.path))
                    content == ArgStr(state'.tool_history[w].args.content)
                IN /\ \A key \in WriteCacheKeys(path) :
                        /\ memo_get_latest(memo_store', key, "cache").found
                        /\ memo_get_latest(memo_store', key, "cache").value =
                             CachePayload(path, content)
                        /\ memo_get_latest(memo_store', key, "cache").run_id = SharedRunId
                        /\ Cardinality({i \in NewCacheEvents :
                                          state'.memo_events[i].key = key}) = 1
                   /\ \A i \in NewCacheEvents :
                        /\ state'.memo_events[i].key \in WriteCacheKeys(path)
                        /\ state'.memo_events[i].namespace = "cache"
         ELSE /\ NewCacheEvents = {}
              /\ \A key \in {<<"write_file_input", p>> :
                               p \in {PathFib, PathB, BaseB, PathBad, BaseBad}} :
                   memo_get_latest(memo_store', key, "cache") =
                     memo_get_latest(memo_store, key, "cache")]_vars

SuccessfulCalls(history, tool) ==
  {i \in 1..Len(history) : history[i].tool = tool /\ ~HasError(history[i].result)}

(* C29 as claimed: when a run has returned, memo_events holds one entry    *)
(* per successful memoize, one per retrieve_memo call, one per cache reuse *)
(* hit and two per successful write_file, and nothing else.                *)
C29_MemoEventsCount ==
  outcome = "returned" =>
    Len(state.memo_events) =
      Cardinality(SuccessfulCalls(state.tool_history, "memoize"))
      + Cardinality({i \in 1..Len(state.tool_history) :
                       state.tool_history[i].tool = "retrieve_memo"})
      + state.policy_flags.cache_reuse_hits
      + 2 * Cardinality(SuccessfulCalls(state.tool_history, "write_file"))

(* C29 amended: every step appends to memo_events exactly one entry per    *)
(* memoize it executed successfully, one (hit or miss) per retrieve_memo   *)
(* it executed, one per cache reuse hit, and one write_file_cache entry    *)
(* per cache entry the execute node stored for a write_file: two when the  *)
(* path has a directory part, one when the path is its own basename, none  *)
(* for the write the plan node replays from the cache.  As memo_events     *)
(* starts empty, it holds nothing else at the end of the run.              *)
C29_MemoEventsPerStep ==
  [][LET new == (Len(state.memo_events) + 1)..Len(state'.memo_events)
         memoized == {i \in NewCalls : /\ state'.tool_history[i].tool = "memoize"
                                       /\ ~HasError(state'.tool_history[i].result)}
         reused == state'.policy_flags.cache_reuse_hits - state.policy_flags.cache_reuse_hits
         stored == {i \in 1..Len(memo_store') :
                      /\ memo_store'[i].namespace = "cache"
                      /\ (i > Len(memo_store) \/ memo_store'[i] # memo_store[i])}
     IN /\ SubSeq(state'.memo_events, 1, Len(state.memo_events)) = state.memo_events
        /\ Cardinality(new) =
             Cardinality(memoized) + Cardinality(NewLookups) + reused
             + Cardinality(NewCacheEvents)
        /\ Cardinality(NewLookupEvents) = Cardinality(NewLookups)
        /\ Cardinality({i \in new : state'.memo_events[i].source_tool = "cache_reuse_hit"})
             = reused
        /\ Cardinality(NewCacheEvents) = Cardinality(stored)
        /\ NewCacheEvents # {} =>
             /\ CanRun("execute")
             /\ Cardinality(NewWrites) = 1
             /\ \A w \in NewWrites :
                  /\ Cardinality(NewCacheEvents) =
                       IF Basename(Strip(ArgStr(state'.tool_history[w].args.path))) =
                            Strip(ArgStr(state'.tool_history[w].args.path))
                         THEN 1 ELSE 2
                  /\ {state'.memo_events[i].key : i \in NewCacheEvents} =
                       WriteCacheKeys(Strip(ArgStr(state'.tool_history[w].args.path)))
        /\ (reused > 0) => NewCacheEvents = {}]_vars

(* C29 witness: a returned run that replayed one write from the cache and  *)
(* then executed a successful write to a path with a directory part, with  *)
(* the lookups that precede it and the two cache entries that follow it.   *)
C29_Witness ==
  /\ outcome = "returned"
  /\ state.policy_flags.cache_reuse_hits = 1
  /\ \E i \in SuccessfulCalls(state.tool_history, "write_file") :
       state.tool_history[i].args.path = PathB
  /\ Cardinality({i \in 1..Len(state.memo_events) :
                    state.memo_events[i].source_tool = "write_file_cache"}) = 2
  /\ \E i \in 1..Len(state.memo_events) :
       state.memo_events[i].source_tool = "retrieve_memo_miss"
  /\ \E i \in 1..Len(state.memo_events) :
       state.memo_events[i].source_tool = "cache_reuse_hit"

(* C30: when run() has returned, derived_snapshot.memo_entry_count is the  *)
(* number of rows the memo store holds for the run's run_id in the "run"   *)
(* namespace, which is what list_entries(run_id) lists; the rows of the    *)
(* shared write cache are not counted.                                     *)
C30_MemoEntryCountMatchesStore ==
  outcome = "returned" =>
    /\ derived_snapshot.run_id = state.run_id
    /\ derived_snapshot.memo_entry_count =
         Cardinality({i \in 1..Len(memo_store) :
                        /\ memo_store[i].run_id = state.run_id
                        /\ memo_store[i].namespace = "run"})
    /\ Len(derived_snapshot.memo_keys) = derived_snapshot.memo_entry_count

(* C30 witness: a returned run whose store holds a memo of the run next to *)
(* write-cache rows of run_id "shared".                                    *)
C30_Witness ==
  /\ outcome = "returned"
  /\ derived_snapshot.memo_entry_count >= 1
  /\ Len(memo_store) > derived_snapshot.memo_entry_count

(***************************************************************************)
(* The memo store used directly (tests/test_memo_store.py): a client makes *)
(* up to MaxPuts puts with arguments of its choice; no run is going on.    *)
(***************************************************************************)
MaxPuts == 4

StoreRunIds == {"run-a", "run-b"}
StoreNamespaces == {"run", "cache"}
StoreKey == <<"write_file", PathFib>>
(* <<value, source_tool, step, created_at>> of a put.                       *)
StorePayloads ==
  {<<<<"json", "v1">>, "memoize", 0, "">>,
   <<<<"json", "v2">>, "write_file", 3, "t1">>,
   <<<<"json", "v1">>, "write_file", 3, "t2">>}

PutCall(run_id, namespace, key, payload) ==
  [run_id |-> run_id, namespace |-> namespace, key |-> key, value |-> payload[1],
   source_tool |-> payload[2], step |-> payload[3], created_at |-> payload[4]]

PutApplied(store, c) ==
  put(store, c.run_id, c.key, c.value, c.namespace, c.source_tool, c.step, c.created_at)

NoRunGoing ==
  /\ state = new_run_state(<<>>)
  /\ checkpoint_store = <<>>
  /\ node = "END"
  /\ outcome = "no run"
  /\ supersteps = 0
  /\ planner_calls = 0
  /\ last_run = NodeRun("START", "init", FALSE, FALSE)
  /\ max_provider_timeout_retries = 0
  /\ outboxes = <<>>
  /\ derived_snapshot = NoSnapshot

InitMemoStore ==
  /\ NoRunGoing
  /\ memo_store = <<>>
  /\ put_log = <<>>

MemoStorePut ==
  /\ Len(put_log) < MaxPuts
  /\ \E run_id \in StoreRunIds, namespace \in StoreNamespaces, payload \in StorePayloads :
       \E c \in {PutCall(run_id, namespace, StoreKey, payload)} :
         /\ memo_store' = PutApplied(memo_store, c)
         /\ put_log' = Append(put_log, c)
  /\ UNCHANGED <<state, checkpoint_store, node, outcome, supersteps, planner_calls,
                 last_run, max_provider_timeout_retries, outboxes, derived_snapshot>>

NextMemoStore == MemoStorePut

SpecMemoStore == InitMemoStore /\ [][NextMemoStore]_vars

(* The last put of the log to a (run_id, namespace, key), 0 if none.       *)
LastPutTo(log, run_id, namespace, key) ==
  LET hit == {n \in 1..Len(log) : /\ log[n].run_id = run_id
                                   /\ log[n].namespace = namespace
                                   /\ log[n].key = key}
  IN IF hit = {} THEN 0 ELSE CHOOSE n \in hit : \A m \in hit : m <= n

(* C31: after any sequence of puts the memo store holds one row per        *)
(* (run_id, namespace, key) that was put and no other; the row carries     *)
(* value, hash, source tool, step and timestamp of the last put to that    *)
(* triple, Get returns that value and hash, and Get under a run_id that    *)
(* never put the key does not find it.                                     *)
C31_PutOverwritesPerTriple ==
  /\ \A i, j \in 1..Len(memo_store) :
       (/\ memo_store[i].run_id = memo_store[j].run_id
        /\ memo_store[i].namespace = memo_store[j].namespace
        /\ memo_store[i].key = memo_store[j].key) => i = j
  /\ \A run_id \in StoreRunIds, namespace \in StoreNamespaces :
       LET last == LastPutTo(put_log, run_id, namespace, StoreKey)
           rows == MemoIndex(memo_store, run_id, namespace, StoreKey)
           got == memo_get(memo_store, run_id, StoreKey, namespace)
       IN IF last = 0
            THEN rows = {} /\ ~got.found /\ got.value = NoValue
            ELSE /\ Cardinality(rows) = 1
                 /\ \A i \in rows :
                      /\ memo_store[i].value = put_log[last].value
                      /\ memo_store[i].value_hash = hash_json(put_log[last].value)
                      /\ memo_store[i].source_tool = put_log[last].source_tool
                      /\ memo_store[i].step = put_log[last].step
                      /\ memo_store[i].created_at =
                           IF put_log[last].created_at = "" THEN utc_now_iso
                           ELSE put_log[last].created_at
                 /\ got.found
                 /\ got.run_id = run_id
                 /\ got.value = put_log[last].value
                 /\ got.value_hash = hash_json(put_log[last].value)

(* C31 witness: run-a put the key twice with different value, step and     *)
(* timestamp, run-b never did; the store holds the one row of the second   *)
(* put and a Get under run-b misses.                                       *)
C31_Witness ==
  /\ Len(put_log) = 2
  /\ put_log[1].run_id = "run-a" /\ put_log[2].run_id = "run-a"
  /\ put_log[1].namespace = "run" /\ put_log[2].namespace = "run"
  /\ put_log[1].value # put_log[2].value
  /\ put_log[1].step # put_log[2].step
  /\ Len(memo_store) = 1
  /\ memo_get(memo_store, "run-a", StoreKey, "run").value = put_log[2].value
  /\ ~memo_get(memo_store, "run-b", StoreKey, "run").found

(* The last put of the log to a key and namespace under any run_id, 0 if   *)
(* none.                                                                   *)
LastPutToKey(log, namespace, key) ==
  LET hit == {n \in 1..Len(log) : log[n].namespace = namespace /\ log[n].key = key}
  IN IF hit = {} THEN 0 ELSE CHOOSE n \in hit : \A m \in hit : m <= n

(* C32: after any sequence of puts, overwrites included, get_latest(key,   *)
(* namespace) finds the entry of the most recent put to that key and       *)
(* namespace under any run_id: its run_id, value and hash.                 *)
C32_GetLatestReturnsMostRecentPut ==
  \A namespace \in StoreNamespaces :
    LET last == LastPutToKey(put_log, namespace, StoreKey)
        got == memo_get_latest(memo_store, StoreKey, namespace)
    IN IF last = 0 THEN ~got.found
       ELSE /\ got.found
            /\ got.run_id = put_log[last].run_id
            /\ got.value = put_log[last].value
            /\ got.value_hash = hash_json(put_log[last].value)

(***************************************************************************)
(* The checkpoint store used directly: a client saves up to MaxSaves       *)
(* checkpoints with arguments of its choice.  Rows are in id order.        *)
(***************************************************************************)
MaxSaves == 3

json_dumps(value) == <<"json", value>>
json_loads(text) == text[2]

NoState == <<>>
SavedStates == {[step |-> 1, final_answer |-> ""], [step |-> 2, final_answer |-> "done"]}
SavedSteps == {1, 2}

save(store, run_id, step, node_name, s) ==
  Append(store, [run_id |-> run_id, step |-> step, node_name |-> node_name,
                 state_json |-> json_dumps(s)])

load_latest_by_id(store, run_id) ==
  LET ids == {i \in 1..Len(store) : store[i].run_id = run_id}
  IN IF ids = {} THEN NoState
     ELSE json_loads(store[CHOOSE i \in ids : \A j \in ids : j <= i].state_json)

(* The ids of the rows of run_id, ORDER BY step DESC, id DESC.             *)
RECURSIVE OrderByStepIdDesc(_, _)
OrderByStepIdDesc(store, ids) ==
  IF ids = {} THEN <<>>
  ELSE LET first == CHOOSE i \in ids :
                      \A j \in ids : \/ store[i].step > store[j].step
                                      \/ (store[i].step = store[j].step /\ i >= j)
       IN <<first>> \o OrderByStepIdDesc(store, ids \ {first})

load_latest(store, run_id) ==
  LET rows == OrderByStepIdDesc(store, {i \in 1..Len(store) : store[i].run_id = run_id})
  IN IF rows = <<>> THEN NoState ELSE json_loads(store[rows[1]].state_json)

InitCheckpointStore ==
  /\ NoRunGoing
  /\ memo_store = <<>>
  /\ put_log = <<>>

CheckpointSave ==
  /\ Len(checkpoint_store) < MaxSaves
  /\ \E run_id \in StoreRunIds, step \in SavedSteps, s \in SavedStates :
       checkpoint_store' = save(checkpoint_store, run_id, step, "execute", s)
  /\ UNCHANGED <<state, memo_store, node, outcome, supersteps, planner_calls, last_run,
                 max_provider_timeout_retries, outboxes, derived_snapshot, put_log>>

NextCheckpointStore == CheckpointSave

SpecCheckpointStore == InitCheckpointStore /\ [][NextCheckpointStore]_vars

(* C33: a save adds one record at the end of the checkpoint store and      *)
(* leaves every earlier record as it was, and after it load_latest(run_id) *)
(* is the state of the run's record with the greatest step, the one with   *)
(* the greatest id among those of that step; None if the run has none.     *)
C33_AppendOnlyLoadLatestMaxStep ==
  [][/\ Len(checkpoint_store') = Len(checkpoint_store) + 1
     /\ SubSeq(checkpoint_store', 1, Len(checkpoint_store)) = checkpoint_store
     /\ \A run_id \in StoreRunIds :
          LET ids == {i \in 1..Len(checkpoint_store') : checkpoint_store'[i].run_id = run_id}
          IN IF ids = {} THEN load_latest(checkpoint_store', run_id) = NoState
             ELSE \E i \in ids :
                    /\ \A j \in ids : checkpoint_store'[j].step <= checkpoint_store'[i].step
                    /\ \A j \in ids : checkpoint_store'[j].step = checkpoint_store'[i].step
                                        => j <= i
                    /\ load_latest(checkpoint_store', run_id) =
                         json_loads(checkpoint_store'[i].state_json)]_vars

(* C33 witness: three records of one run, the first two of the same step   *)
(* with different states and the last of a smaller step; load_latest is    *)
(* the state of the second.                                                *)
C33_Witness ==
  /\ Len(checkpoint_store) = 3
  /\ \A i \in 1..3 : checkpoint_store[i].run_id = "run-a"
  /\ checkpoint_store[1].step = checkpoint_store[2].step
  /\ checkpoint_store[3].step < checkpoint_store[2].step
  /\ checkpoint_store[1].state_json # checkpoint_store[2].state_json
  /\ checkpoint_store[3].state_json = checkpoint_store[1].state_json
  /\ load_latest(checkpoint_store, "run-a") = json_loads(checkpoint_store[2].state_json)

(* The entries of tool_history that ran the proposed tool with its args.   *)
RunsOfProposedCall(s) ==
  {i \in 1..Len(s.tool_history) :
     /\ s.tool_history[i].tool = s.pending_action.tool_name
     /\ s.tool_history[i].args =
          InjectMemoArgs(s, s.pending_action.tool_name, s.pending_action.args)}

(* The execute node is entered with a proposed tool call that the run has  *)
(* executed before with the same args, all missions being complete and no  *)
(* memoization being demanded in its place.                                *)
DuplicateProposedAfterCompletion ==
  /\ CanRun("execute")
  /\ state.pending_action.action = "tool"
  /\ state.pending_action.tool_name \in Tools
  /\ RunsOfProposedCall(state) # {}
  /\ all_missions_completed(state)
  /\ ~(state.policy_flags.memo_required /\ state.pending_action.tool_name # "memoize")

(* C34: a duplicate tool call proposed after all missions are complete     *)
(* makes the execute node set the auto-finish "All tasks completed."       *)
(* without running the tool again, so that the tool has one run in total.  *)
C34_DuplicateAfterCompletionAutoFinishes ==
  [][DuplicateProposedAfterCompletion =>
       /\ last_run'.branch = "duplicate_finish"
       /\ state'.pending_action = FinishActionOf(AutoFinishAnswer)
       /\ state'.tool_history = state.tool_history
       /\ Cardinality(RunsOfProposedCall(state)) = 1]_vars

(* The execute node runs a memoize in this step.                           *)
MemoizeExecuted ==
  /\ CanRun("execute")
  /\ NewCalls # {}
  /\ \A i \in NewCalls : state'.tool_history[i].tool = "memoize"

(* C35: a memoize whose result carries a value_hash appends one memo_event *)
(* (key, namespace and hash of the result, at the current step), clears    *)
(* memo_required, memo_required_key and memo_required_reason and resets    *)
(* retry_counts.memo_policy to zero; a memoize whose result has none       *)
(* leaves memo_events, the three flags and the counter as they were.       *)
C35_MemoizeClearsPolicyFlags ==
  [][MemoizeExecuted =>
       \A i \in NewCalls :
         LET result == state'.tool_history[i].result
         IN IF result.value_hash # NoHash
              THEN /\ Len(state'.memo_events) = Len(state.memo_events) + 1
                   /\ SubSeq(state'.memo_events, 1, Len(state.memo_events)) = state.memo_events
                   /\ state'.memo_events[Len(state'.memo_events)].key = result.key
                   /\ state'.memo_events[Len(state'.memo_events)].value_hash = result.value_hash
                   /\ state'.memo_events[Len(state'.memo_events)].step = state.step
                   /\ ~state'.policy_flags.memo_required
                   /\ state'.policy_flags.memo_required_key = NoKey
                   /\ state'.policy_flags.memo_required_reason = ""
                   /\ state'.retry_counts.memo_policy = 0
              ELSE /\ HasError(result)
                   /\ state'.memo_events = state.memo_events
                   /\ state'.policy_flags.memo_required = state.policy_flags.memo_required
                   /\ state'.policy_flags.memo_required_key = state.policy_flags.memo_required_key
                   /\ state'.policy_flags.memo_required_reason =
                        state.policy_flags.memo_required_reason
                   /\ state'.retry_counts.memo_policy = state.retry_counts.memo_policy]_vars

(* C35 witness: the policy node demanded memoization, a memoize without a  *)
(* value failed, and the memoize that followed succeeded and cleared the   *)
(* demand.                                                                 *)
C35_Witness ==
  /\ last_run.node = "execute"
  /\ last_run.branch = "executed"
  /\ Len(state.tool_history) >= 3
  /\ state.tool_history[Len(state.tool_history)].tool = "memoize"
  /\ state.tool_history[Len(state.tool_history)].result.value_hash # NoHash
  /\ \E i \in 1..Len(state.tool_history) :
       /\ state.tool_history[i].tool = "memoize"
       /\ HasError(state.tool_history[i].result)
  /\ InSeq("policy_check", state.messages)
  /\ ~state.policy_flags.memo_required
  /\ state.memo_events # <<>>

(* C36: the policy node leaves the state and the checkpoint store as they  *)
(* are when last_tool_name is empty or names memoize or retrieve_memo;     *)
(* otherwise, if requires_memoization holds for the last tool, args and    *)
(* result, it sets memo_required with the suggested key and the tool as    *)
(* reason and adds the policy message, and if it does not hold it leaves   *)
(* the state as it is; in both cases it saves the "policy" checkpoint.     *)
C36_PolicyNodeSetsMemoRequired ==
  [][CanRun("policy") =>
       LET flags == state.policy_flags
       IN IF flags.last_tool_name = "" \/ flags.last_tool_name \in {"memoize", "retrieve_memo"}
            THEN state' = state /\ checkpoint_store' = checkpoint_store
          ELSE /\ Len(checkpoint_store') = Len(checkpoint_store) + 1
               /\ LastCheckpoint'.node_name = "policy"
               /\ IF requires_memoization(flags.last_tool_name, flags.last_tool_args,
                                          flags.last_tool_result)
                    THEN /\ state'.policy_flags =
                              [flags EXCEPT
                                 !.memo_required = TRUE,
                                 !.memo_required_key =
                                    suggested_memo_key(flags.last_tool_name, flags.last_tool_args,
                                                       flags.last_tool_result),
                                 !.memo_required_reason = flags.last_tool_name]
                         /\ state'.messages = Append(state.messages, "policy_check")
                         /\ state'.retry_counts = state.retry_counts
                         /\ state'.tool_history = state.tool_history
                         /\ state'.pending_action = state.pending_action
                    ELSE state' = state]_vars

(* C36 witness: the policy node has just skipped after a memoize, in a run *)
(* in which it had demanded memoization for the write before it.           *)
C36_Witness ==
  /\ last_run.node = "policy"
  /\ last_run.branch = "skip_helper"
  /\ state.policy_flags.last_tool_name = "memoize"
  /\ InSeq("policy_check", state.messages)
  /\ \E i \in 1..Len(state.tool_history) : state.tool_history[i].tool = "write_file"

(***************************************************************************)
(* Runs whose user input names the same task twice, so that two missions   *)
(* have the same text.                                                     *)
(***************************************************************************)
RepeatedScenarios ==
  {<<<<MissionFib, MissionFib>>, SeedEmpty, 2>>,
   <<<<MissionFib, MissionFib>>, SeedCacheFib, 2>>,
   <<<<MissionRepeat, MissionRepeat>>, SeedEmpty, 2>>}

InitRepeated ==
  \E sc \in RepeatedScenarios :
    /\ state = new_run_state(sc[1])
    /\ memo_store = sc[2]
    /\ checkpoint_store = <<Checkpoint(new_run_state(sc[1]), "init")>>
    /\ node = "plan"
    /\ outcome = "running"
    /\ supersteps = 0
    /\ planner_calls = 0
    /\ last_run = NodeRun("START", "init", FALSE, FALSE)
    /\ max_provider_timeout_retries = sc[3]
    /\ outboxes = <<>>
    /\ derived_snapshot = NoSnapshot
    /\ put_log = <<>>

SpecRepeated == InitRepeated /\ [][Next]_vars

(* The tool_history entries the step just taken appended for a tool other  *)
(* than the memo helpers whose result carries no error.                    *)
NewSuccessfulNonHelperCalls ==
  {i \in NewCalls : /\ state'.tool_history[i].tool \notin HelperTools
                    /\ ~HasError(state'.tool_history[i].result)}

(* C37: a successful call of a tool other than the memo helpers, made by   *)
(* the execute node or by the cache-reuse shortcut with its mission_index  *)
(* override, while a mission is still incomplete, appends that mission     *)
(* (missions[completed_before]) to completed_tasks and attaches the event  *)
(* to mission_reports[completed_before]: tool name, result and active      *)
(* mission index; so the events of later calls go to the missions that     *)
(* follow, in order.                                                       *)
C37_SuccessBindsToNextIncompleteMission ==
  [][\A i \in NewSuccessfulNonHelperCalls :
       LET completed_before == Len(state.completed_tasks)
           report == state'.mission_reports[completed_before + 1]
       IN completed_before < Len(state.missions) =>
            /\ state'.completed_tasks =
                 Append(state.completed_tasks, state.missions[completed_before + 1])
            /\ state'.active_mission_index = completed_before
            /\ report.mission = state.missions[completed_before + 1]
            /\ report.used_tools # <<>>
            /\ report.used_tools[Len(report.used_tools)] = state'.tool_history[i].tool
            /\ report.tool_results[Len(report.tool_results)] =
                 [tool |-> state'.tool_history[i].tool,
                  result |-> state'.tool_history[i].result]
            /\ report.result = state'.tool_history[i].result
            /\ \A m \in 1..Len(state.mission_reports) :
                 m # completed_before + 1 => state'.mission_reports[m] = state.mission_reports[m]]_vars

(* The successful executions of tools other than the memo helpers so far.  *)
SuccessfulNonHelperCalls(s) ==
  {i \in 1..Len(s.tool_history) : /\ s.tool_history[i].tool \notin HelperTools
                                   /\ ~HasError(s.tool_history[i].result)}

(* C39: after k successful executions of tools other than the memo         *)
(* helpers, k <= len(missions), in a run that completed no mission from a  *)
(* memo hit, completed_tasks has k entries and the next incomplete mission *)
(* is missions[k] (none when k = len(missions)), even if two missions have *)
(* the same text.                                                          *)
C39_ProgressCountsRepeatedMissions ==
  LET k == Cardinality(SuccessfulNonHelperCalls(state))
  IN (k <= Len(state.missions) /\ state.policy_flags.memo_retrieve_hits = 0) =>
       /\ Len(state.completed_tasks) = k
       /\ next_incomplete_mission(state) =
            IF k < Len(state.missions) THEN state.missions[k + 1] ELSE ""

(* A finish action is pending where only the execute node can have put it: *)
(* at the policy node, or at the plan entry that follows it.               *)
FinishCarriedFromExecute ==
  /\ outcome = "running"
  /\ node \in {"policy", "plan"}
  /\ state.pending_action.action = "finish"

(* C38: a finish action set inside the execute node (duplicate auto-finish *)
(* or content-validation fail-closed) is carried unchanged through the     *)
(* policy node and the next plan entry to finalize, which makes its answer *)
(* the final answer: step is not incremented, neither the planner nor the  *)
(* fallback is called, no retry counter moves and the finish is not        *)
(* rejected, whether or not missions are incomplete.  Only the recursion   *)
(* limit can end the run before finalize.                                  *)
C38_ExecuteFinishCarriedToFinalize ==
  /\ [](FinishCarriedFromExecute /\ node = "policy" =>
          /\ last_run.node = "execute"
          /\ last_run.branch \in {"duplicate_finish", "content_validation"})
  /\ [][FinishCarriedFromExecute =>
          \/ outcome' = "GraphRecursionError"
          \/ /\ node' = (IF node = "policy" THEN "plan" ELSE "finalize")
             /\ state'.pending_action = state.pending_action
             /\ state'.step = state.step
             /\ state'.retry_counts = state.retry_counts
             /\ state'.final_answer = state.final_answer
             /\ planner_calls' = planner_calls
             /\ ~last_run'.planner_called
             /\ ~last_run'.fallback_called
             /\ node = "plan" => state' = state]_vars
  /\ [][(CanRun("finalize") /\ last_run.branch = "carried_finish") =>
          /\ state.pending_action.answer \in {AutoFinishAnswer, FailValidation}
          /\ node' = "END"
          /\ state'.final_answer = state.pending_action.answer
          /\ state'.pending_action = NoAction]_vars

(* C38 witness: the content-validation finish set by the execute node was  *)
(* carried to finalize while a mission was still incomplete.               *)
C38_Witness ==
  /\ node = "END"
  /\ state.final_answer = FailValidation
  /\ Len(state.completed_tasks) < Len(state.missions)
  /\ state.retry_counts.content_validation > max_content_validation_retries

(* C38 witness of the duplicate auto-finish carried to finalize. *)
C38_WitnessDuplicate ==
  /\ node = "END"
  /\ state.final_answer = AutoFinishAnswer
  /\ state.retry_counts.duplicate_tool > 0

(***************************************************************************)
(* Runs whose input asks twice, in two tasks, to repeat the same message,   *)
(* so that the fallback builds the same repeat_message call for both.      *)
(***************************************************************************)
SameMessageScenarios ==
  {<<<<MissionRepeat, MissionRepeatAgain>>, SeedEmpty, 2>>,
   <<<<MissionFib, MissionRepeat>>, SeedCacheFib, 2>>}

InitSameMessage ==
  \E sc \in SameMessageScenarios :
    /\ state = new_run_state(sc[1])
    /\ memo_store = sc[2]
    /\ checkpoint_store = <<Checkpoint(new_run_state(sc[1]), "init")>>
    /\ node = "plan"
    /\ outcome = "running"
    /\ supersteps = 0
    /\ planner_calls = 0
    /\ last_run = NodeRun("START", "init", FALSE, FALSE)
    /\ max_provider_timeout_retries = sc[3]
    /\ outboxes = <<>>
    /\ derived_snapshot = NoSnapshot
    /\ put_log = <<>>

SpecSameMessage == InitSameMessage /\ [][Next]_vars

(* The execute node is entered with an action the deterministic fallback   *)
(* chose while planner_timeout_mode is set.                                *)
ExecutesFallbackInTimeoutMode ==
  /\ CanRun("execute")
  /\ state.policy_flags.planner_timeout_mode
  /\ last_run.node = "plan"
  /\ last_run.fallback_called

(* The step just taken completed a mission or satisfied the memo policy.   *)
MadeProgress ==
  \/ Len(state'.completed_tasks) > Len(state.completed_tasks)
  \/ state.policy_flags.memo_required /\ ~state'.policy_flags.memo_required

(* C40: in timeout mode every execution of an action chosen by the         *)
(* fallback makes progress (a mission is completed or the memo policy is   *)
(* satisfied), so that the same fallback action is not chosen again and    *)
(* the mode cannot cycle plan/execute/policy up to the recursion limit;    *)
(* and planner_timeout_mode is cleared only by a plan entry whose planner  *)
(* call returned a response.                                               *)
C40_TimeoutModeMakesProgress ==
  /\ [][ExecutesFallbackInTimeoutMode => MadeProgress]_vars
  /\ [][(state.policy_flags.planner_timeout_mode /\ ~state'.policy_flags.planner_timeout_mode) =>
          /\ last_run'.node = "plan"
          /\ last_run'.planner_called
          /\ last_run'.branch \notin {"timeout_fallback", "timeout_retry", "timeout_fail_closed"}]_vars

(* C40 observation: in timeout mode the fallback's repeat_message call was *)
(* refused as a duplicate twice while the second mission stayed incomplete. *)
C40_DuplicateFallbackRepeats ==
  /\ state.policy_flags.planner_timeout_mode
  /\ state.retry_counts.duplicate_tool = 2
  /\ planner_calls = 1
  /\ Len(state.completed_tasks) = 1
  /\ outcome = "GraphRecursionError"
====
